---------------------------- MODULE Spec2Model ----------------------------
(***************************************************************************)
(* billipocket: invoice lifecycle, overdue sweep and the routes that       *)
(* mutate invoices.  The state is the content of the database tables; one  *)
(* action is one HTTP request handled to completion (Spec), or one step of *)
(* a request that interleaves with other requests (SpecConc).              *)
(*                                                                         *)
(* Dates are day numbers.  Money is in cents, quantities in hundredths,    *)
(* percentages in hundredths of a percent (Numeric(_, 2) columns).         *)
(***************************************************************************)
EXTENDS Integers, Sequences, FiniteSets, TLC

\* ------------------------------------------------------------- bounds ----
MaxDay == 1            \* the clock runs over days 0..MaxDay
MaxInvoiceId == 2      \* invoice primary keys 1..MaxInvoiceId
MaxClientId == 1       \* client primary keys 1..MaxClientId
MaxLines == 1          \* lines submitted with one invoice form
MaxVatRateId == 5      \* VAT rate primary keys 1..MaxVatRateId
MaxOwnerId == 2        \* client primary keys 1..MaxOwnerId of clients added to the session

\* ---------------------------------------------------------- constants ----
DRAFT == "mustand"
SENT == "saadetud"
PAID == "makstud"
OVERDUE == "tahtaeg uletatud"
VALID_STATUSES == {DRAFT, SENT, PAID, OVERDUE}

\* A status string outside the closed set, as a request may carry one.
INVALID_STATUS == "invalid_status"
RequestedStatuses == VALID_STATUSES \cup {INVALID_STATUS}

Days == 0..MaxDay
InvoiceIds == 1..MaxInvoiceId
ClientIds == 1..MaxClientId
\* Invoice numbers "YYYY-NNNN" of one year, by their sequence part.
Numbers == 1..MaxInvoiceId
VatRateIds == 1..MaxVatRateId

VARIABLES
    today,          \* date.today() / datetime.utcnow(), in days
    clients,        \* table clients: id -> row
    vat_rates,      \* table vat_rates: id -> row
    invoices,       \* table invoices: id -> row
    invoice_lines,  \* table invoice_lines: id -> row
    response,       \* what the last request flashed and rendered
    sweep,          \* the session of an overdue sweep that is in flight
    creating        \* the validated forms of new_invoice requests in flight

vars == <<today, clients, vat_rates, invoices, invoice_lines, response, sweep,
          creating>>

\* ------------------------------------------------------------ helpers ----
MaxOf(S) == IF S = {} THEN 0 ELSE CHOOSE m \in S : \A x \in S : x <= m

\* The primary key a table hands out to the next inserted row.
NextId(tbl) == MaxOf(DOMAIN tbl) + 1

\* f restricted to the keys in S
Restrict(f, S) == [k \in S |-> f[k]]

\* f extended (or overwritten) with k |-> v
Put(f, k, v) == [x \in (DOMAIN f) \cup {k} |-> IF x = k THEN v ELSE f[x]]

RECURSIVE SumOver(_, _)
SumOver(f, S) ==
    IF S = {} THEN 0
    ELSE LET k == CHOOSE k \in S : TRUE IN f[k] + SumOver(f, S \ {k})

\* The response to a request: the route that answered, the category it flashed,
\* the invoice and status the request named, and the invoice statuses rendered.
Flash(route, category) ==
    [route |-> route, category |-> category, invoice_id |-> 0, new_status |-> "",
     rendered |-> {}]

FlashStatus(route, category, invoice_id, new_status) ==
    [route |-> route, category |-> category, invoice_id |-> invoice_id,
     new_status |-> new_status, rendered |-> {}]

Page(route, invoice_id, rendered) ==
    [route |-> route, category |-> "page", invoice_id |-> invoice_id,
     new_status |-> "", rendered |-> rendered]

\* What a method called on a stored invoice returned.
Returned(method, invoice_id, values) ==
    [route |-> method, category |-> "returned", invoice_id |-> invoice_id,
     new_status |-> "", rendered |-> values]


\* NULL for a nullable foreign key
NULL == 0

\* ------------------------------------------------ app/models.py: VatRate --
\* The four rows VatRate.create_default_rates inserts, in its order.
default_rates ==
    << [name |-> "Maksuvaba (0%)", rate |-> 0],
       [name |-> "Vahendatud maar (9%)", rate |-> 900],
       [name |-> "Vahendatud maar (20%)", rate |-> 2000],
       [name |-> "Standardmaar (24%)", rate |-> 2400] >>

RECURSIVE AddDefaultRates(_, _)
AddDefaultRates(tbl, k) ==
    IF k > Len(default_rates) THEN tbl
    ELSE LET rate_data == default_rates[k]
             existing_rate == {r \in DOMAIN tbl : tbl[r].rate = rate_data.rate}
         IN IF existing_rate = {}
            THEN AddDefaultRates(
                   Put(tbl, NextId(tbl),
                       [name |-> rate_data.name, rate |-> rate_data.rate,
                        is_active |-> TRUE]),
                   k + 1)
            ELSE AddDefaultRates(tbl, k + 1)

create_default_rates(tbl) == AddDefaultRates(tbl, 1)

\* ids of the active rates (the order by rate is not needed by the callers here)
get_active_rates(tbl) == {r \in DOMAIN tbl : tbl[r].is_active}

\* VatRate.get_active_rates as the list it is: the ids of the active rates,
\* ORDER BY rate ASC
RECURSIVE OrderByRate(_, _)
OrderByRate(tbl, ids) ==
    IF ids = {} THEN << >>
    ELSE LET r == CHOOSE r \in ids : \A q \in ids : tbl[r].rate <= tbl[q].rate
         IN <<r>> \o OrderByRate(tbl, ids \ {r})

active_rates_list(tbl) == OrderByRate(tbl, get_active_rates(tbl))

\* get_default_rate that does not filter on is_active
get_default_rate_InactiveIncluded(tbl) ==
    LET standard == {r \in DOMAIN tbl : tbl[r].rate = 2400}
    IN IF standard = {} THEN NULL ELSE CHOOSE r \in standard : TRUE

\* VatRate.get_default_rate: filter_by(rate=24.00, is_active=True).first()
get_default_rate(tbl) ==
    LET standard == {r \in DOMAIN tbl : tbl[r].rate = 2400 /\ tbl[r].is_active}
    IN IF standard = {} THEN NULL ELSE CHOOSE r \in standard : TRUE

\* the UNIQUE constraints on vat_rates.name and vat_rates.rate
vat_rates_unique(tbl) ==
    \A a, b \in DOMAIN tbl :
        a # b => tbl[a].name # tbl[b].name /\ tbl[a].rate # tbl[b].rate

\* ------------------------------------------------- app/models.py: Client --
\* total_revenue that counts the paid invoices only
total_revenue_PaidOnly(client_id, invs) ==
    SumOver([i \in DOMAIN invs |-> invs[i].total],
            {i \in DOMAIN invs : invs[i].client_id = client_id /\ invs[i].status = PAID})

\* Client.total_revenue: invs is the table invoices
total_revenue(client_id, invs) ==
    SumOver([i \in DOMAIN invs |-> invs[i].total],
            {i \in DOMAIN invs : invs[i].client_id = client_id /\ invs[i].status # DRAFT})

\* ------------------------------------------------ app/models.py: Invoice --
is_overdue(inv, day) == inv.due_date < day /\ inv.status \in {SENT}

is_paid(inv) == inv.status = PAID

can_be_edited(inv) == inv.status # PAID

\* get_effective_vat_rate that always answers the denormalized column
get_effective_vat_rate_DenormalizedOnly(inv, rates) == inv.vat_rate

get_effective_vat_rate(inv, rates) ==
    IF inv.vat_rate_id \in DOMAIN rates THEN rates[inv.vat_rate_id].rate
    ELSE inv.vat_rate

\* subtotal * (effective_rate / 100), in cents
vat_amount(inv, rates) ==
    (inv.subtotal * get_effective_vat_rate(inv, rates) + 5000) \div 10000

\* lines is the table invoice_lines; inv_id the invoice's primary key
LinesOf(lines, inv_id) == {l \in DOMAIN lines : lines[l].invoice_id = inv_id}

\* calculate_totals that recomputes each line as qty * unit_price
calculate_totals_RecomputesLines(inv, inv_id, lines, rates) ==
    LET sub == SumOver([l \in DOMAIN lines |->
                          (lines[l].qty * lines[l].unit_price + 50) \div 100],
                       LinesOf(lines, inv_id))
        withSub == [inv EXCEPT !.subtotal = sub]
    IN [withSub EXCEPT !.total = sub + vat_amount(withSub, rates)]

\* calculate_totals that adds the lines to the subtotal already stored
calculate_totals_Accumulates(inv, inv_id, lines, rates) ==
    LET sub == inv.subtotal +
               SumOver([l \in DOMAIN lines |-> lines[l].line_total],
                       LinesOf(lines, inv_id))
        withSub == [inv EXCEPT !.subtotal = sub]
    IN [withSub EXCEPT !.total = sub + vat_amount(withSub, rates)]

calculate_totals(inv, inv_id, lines, rates) ==
    LET sub == SumOver([l \in DOMAIN lines |-> lines[l].line_total],
                       LinesOf(lines, inv_id))
        withSub == [inv EXCEPT !.subtotal = sub]
    IN [withSub EXCEPT !.total = sub + vat_amount(withSub, rates)]

\* can_change_status_to without the guard on paid invoices
can_change_status_to_PaidUnguarded(inv, new_status, day) ==
    IF new_status \notin VALID_STATUSES
    THEN [ok |-> FALSE, error |-> "invalid_status"]
    ELSE IF inv.status = OVERDUE /\ new_status = SENT /\ is_overdue(inv, day)
    THEN [ok |-> FALSE, error |-> "still_overdue"]
    ELSE [ok |-> TRUE, error |-> "none"]

\* can_change_status_to without the check of the closed set
can_change_status_to_AnyStatus(inv, new_status, day) ==
    IF inv.status = PAID /\ new_status \in {DRAFT, SENT, OVERDUE}
    THEN [ok |-> FALSE, error |-> "paid_to_unpaid"]
    ELSE IF inv.status = OVERDUE /\ new_status = SENT /\ is_overdue(inv, day)
    THEN [ok |-> FALSE, error |-> "still_overdue"]
    ELSE [ok |-> TRUE, error |-> "none"]

\* can_change_status_to that lets a draft go to sent only
can_change_status_to_DraftMustBeSent(inv, new_status, day) ==
    IF inv.status = PAID /\ new_status \in {DRAFT, SENT, OVERDUE}
    THEN [ok |-> FALSE, error |-> "paid_to_unpaid"]
    ELSE IF new_status \notin VALID_STATUSES
    THEN [ok |-> FALSE, error |-> "invalid_status"]
    ELSE IF inv.status = DRAFT /\ new_status \in {PAID, OVERDUE}
    THEN [ok |-> FALSE, error |-> "draft_not_sent"]
    ELSE [ok |-> TRUE, error |-> "none"]

\* (ok, error) of Invoice.can_change_status_to
can_change_status_to(inv, new_status, day) ==
    LET current_status == inv.status IN
    IF current_status = PAID /\ new_status \in {DRAFT, SENT, OVERDUE}
    THEN [ok |-> FALSE, error |-> "paid_to_unpaid"]
    ELSE IF new_status \notin VALID_STATUSES
    THEN [ok |-> FALSE, error |-> "invalid_status"]
    ELSE IF current_status = OVERDUE /\ new_status = SENT /\ is_overdue(inv, day)
    THEN [ok |-> FALSE, error |-> "still_overdue"]
    ELSE [ok |-> TRUE, error |-> "none"]

\* set_status that also resets the stored totals
set_status_ResetsTotals(inv, new_status, day) ==
    IF ~can_change_status_to(inv, new_status, day).ok
    THEN [raised |-> TRUE, invoice |-> inv]
    ELSE [raised |-> FALSE,
          invoice |-> [inv EXCEPT !.status = new_status, !.updated_at = day,
                                  !.subtotal = 0, !.total = 0]]

\* Invoice.set_status: raised is the ValueError, invoice the row afterwards
set_status(inv, new_status, day) ==
    LET can_change == can_change_status_to(inv, new_status, day) IN
    IF ~can_change.ok
    THEN [raised |-> TRUE, invoice |-> inv]
    ELSE [raised |-> FALSE,
          invoice |-> [inv EXCEPT !.status = new_status, !.updated_at = day]]

\* the query with due_date <= today
overdue_query_DueTodayIncluded(invs, day) ==
    {i \in DOMAIN invs : invs[i].due_date <= day /\ invs[i].status = SENT}

\* the query without the filter on the status sent
overdue_query_OverdueIncluded(invs, day) ==
    {i \in DOMAIN invs : invs[i].due_date < day /\ invs[i].status \in {SENT, OVERDUE}}

\* Invoice.update_overdue_invoices: the rows after the loop, and the count
overdue_query(invs, day) ==
    {i \in DOMAIN invs : invs[i].due_date < day /\ invs[i].status = SENT}

\* the loop body, on the rows the query loaded
mark_overdue(invs, overdue_invoices, day) ==
    [i \in DOMAIN invs |->
        IF i \in overdue_invoices
        THEN [invs[i] EXCEPT !.status = OVERDUE, !.updated_at = day]
        ELSE invs[i]]

update_overdue_invoices(invs, day) ==
    LET overdue_invoices == overdue_query(invs, day) IN
    [invoices |-> mark_overdue(invs, overdue_invoices, day),
     count |-> Cardinality(overdue_invoices)]

\* --------------------------- app/services/status_transitions.py ----------
can_transition_to(current_status, new_status) ==
    IF new_status \notin VALID_STATUSES
    THEN [ok |-> FALSE, error |-> "invalid_status"]
    ELSE IF current_status = new_status
    THEN [ok |-> TRUE, error |-> "none"]
    ELSE IF current_status = PAID /\ new_status \in {DRAFT, SENT, OVERDUE}
    THEN [ok |-> FALSE, error |-> "paid_to_unpaid"]
    ELSE [ok |-> TRUE, error |-> "none"]

can_transition_overdue_to_sent(inv, new_status, day) ==
    IF inv.status = OVERDUE /\ new_status = SENT /\ is_overdue(inv, day)
    THEN [ok |-> FALSE, error |-> "still_overdue"]
    ELSE [ok |-> TRUE, error |-> "none"]

\* (success, invoice afterwards) of transition_invoice_status
transition_invoice_status(inv, new_status, day) ==
    IF ~can_transition_to(inv.status, new_status).ok
    THEN [success |-> FALSE, invoice |-> inv]
    ELSE IF ~can_transition_overdue_to_sent(inv, new_status, day).ok
    THEN [success |-> FALSE, invoice |-> inv]
    ELSE LET r == set_status(inv, new_status, day)
         IN [success |-> ~r.raised, invoice |-> r.invoice]

\* get_valid_transitions without the case of the paid invoice
get_valid_transitions_PaidUnguarded(current_status) == VALID_STATUSES

\* InvoiceStatusTransition.get_valid_transitions, as the set of the list
get_valid_transitions(current_status) ==
    IF current_status = PAID THEN {PAID} ELSE VALID_STATUSES

\* ------------------------------ app/services/totals.py, numbering.py -----
\* qty (hundredths) * unit_price (cents), to the cent
calculate_line_total(qty, unit_price) == (qty * unit_price + 50) \div 100

calculate_invoice_totals(inv, inv_id, lines, rates) ==
    calculate_totals(inv, inv_id, lines, rates)

\* the greatest number of the year in use, plus one
generate_invoice_number(invs) == MaxOf({invs[i].number : i \in DOMAIN invs}) + 1


\* ------------------------------------------------------------- inputs ----
\* The line rows a form submits: description, qty (2.50), unit price (100.00).
LineInputs == { [description |-> "Service", qty |-> 250, unit_price |-> 10000] }

\* The VAT rate a user picks among the active ones (the preselected 24%).
SubmittedVatRateIds == {4}

\* The invoice date a form submits (the day the books were opened).
SubmittedDates == {0}

\* The new_invoice requests that may be in flight at once, and the form of one
\* that is not.
Requests == {1, 2}

IdleRequest ==
    [pc |-> "idle", number |-> 0, client_id |-> 0, date |-> 0, due_date |-> 0,
     vat_rate_id |-> 0, status |-> "", lines |-> << >>, invoice_id |-> 0,
     loaded |-> << >>]

\* ---------------------------------------------------------------- Init ---
\* db.create_all(): empty tables
Init ==
    /\ today = 0
    /\ clients = << >>
    /\ vat_rates = << >>
    /\ invoices = << >>
    /\ invoice_lines = << >>
    /\ response = Flash("none", "none")
    /\ sweep = [pc |-> "idle", loaded |-> {}, day |-> 0]
    /\ creating = [p \in Requests |-> IdleRequest]

\* The clock: date.today() moves on between requests.
Tick ==
    /\ today < MaxDay
    /\ today' = today + 1
    /\ UNCHANGED <<clients, vat_rates, invoices, invoice_lines, response, sweep, creating>>

\* ------------------------------------------- app/routes/dashboard.py -----
\* POST /settings/vat-rates/init-defaults: a row that breaks a UNIQUE
\* constraint fails the flush and nothing is committed
init_default_vat_rates ==
    LET tbl == create_default_rates(vat_rates) IN
    /\ DOMAIN tbl \subseteq VatRateIds
    /\ IF vat_rates_unique(tbl)
       THEN /\ vat_rates' = tbl
            /\ response' = Flash("init_default_vat_rates", "success")
       ELSE /\ UNCHANGED vat_rates
            /\ response' = Flash("init_default_vat_rates", "danger")
    /\ UNCHANGED <<today, clients, invoices, invoice_lines, sweep, creating>>

\* ------------------------------------------ app/forms.py: VatRateForm -----
\* VatRateForm.validate_rate: vat_rate_id is NULL for a new rate
validate_rate(rate, vat_rate_id) ==
    \A r \in DOMAIN vat_rates :
        vat_rates[r].rate = rate => (vat_rate_id # NULL /\ r = vat_rate_id)

\* VatRateForm.validate_name
validate_name(name, vat_rate_id) ==
    \A r \in DOMAIN vat_rates :
        vat_rates[r].name = name => (vat_rate_id # NULL /\ r = vat_rate_id)

\* VatRateForm.validate: DataRequired on name and rate (a Decimal zero is not
\* data), NumberRange(0, 100) on rate, then the two inline validators
VatRateFormValid(name, rate, vat_rate_id) ==
    /\ name # ""
    /\ validate_name(name, vat_rate_id)
    /\ rate # 0
    /\ rate >= 0 /\ rate <= 10000
    /\ validate_rate(rate, vat_rate_id)

\* POST /settings/vat-rates/new
new_vat_rate(name, rate, is_active) ==
    /\ NextId(vat_rates) \in VatRateIds
    /\ IF ~VatRateFormValid(name, rate, NULL)
       THEN /\ response' = Flash("new_vat_rate", "form_error")
            /\ UNCHANGED vat_rates
       ELSE LET tbl == Put(vat_rates, NextId(vat_rates),
                           [name |-> name, rate |-> rate, is_active |-> is_active])
            IN IF vat_rates_unique(tbl)
               THEN /\ vat_rates' = tbl
                    /\ response' = Flash("new_vat_rate", "success")
               ELSE /\ UNCHANGED vat_rates
                    /\ response' = Flash("new_vat_rate", "danger")
    /\ UNCHANGED <<today, clients, invoices, invoice_lines, sweep, creating>>

\* POST /settings/vat-rates/<id>/edit
edit_vat_rate(vat_rate_id, name, rate, is_active) ==
    /\ vat_rate_id \in DOMAIN vat_rates
    /\ IF ~VatRateFormValid(name, rate, vat_rate_id)
       THEN /\ response' = Flash("edit_vat_rate", "form_error")
            /\ UNCHANGED vat_rates
       ELSE LET tbl == [vat_rates EXCEPT ![vat_rate_id] =
                          [name |-> name, rate |-> rate, is_active |-> is_active]]
            IN IF vat_rates_unique(tbl)
               THEN /\ vat_rates' = tbl
                    /\ response' = Flash("edit_vat_rate", "success")
               ELSE /\ UNCHANGED vat_rates
                    /\ response' = Flash("edit_vat_rate", "danger")
    /\ UNCHANGED <<today, clients, invoices, invoice_lines, sweep, creating>>

\* delete_vat_rate without the count of the invoices that use the rate
delete_vat_rate_InvoicesUncounted(vat_rate_id) ==
    /\ vat_rate_id \in DOMAIN vat_rates
    /\ vat_rates' = Restrict(vat_rates, DOMAIN vat_rates \ {vat_rate_id})
    /\ response' = Flash("delete_vat_rate", "success")
    /\ UNCHANGED <<today, clients, invoices, invoice_lines, sweep, creating>>

\* POST /settings/vat-rates/<id>/delete
delete_vat_rate(vat_rate_id) ==
    /\ vat_rate_id \in DOMAIN vat_rates
    /\ LET invoice_count ==
             Cardinality({i \in DOMAIN invoices : invoices[i].vat_rate_id = vat_rate_id})
       IN IF invoice_count > 0
          THEN /\ response' = Flash("delete_vat_rate", "warning")
               /\ UNCHANGED vat_rates
          ELSE /\ vat_rates' = Restrict(vat_rates, DOMAIN vat_rates \ {vat_rate_id})
               /\ response' = Flash("delete_vat_rate", "success")
    /\ UNCHANGED <<today, clients, invoices, invoice_lines, sweep, creating>>

\* GET /: the sweep, committed when it changed a row, then the metrics
overview ==
    LET swept == update_overdue_invoices(invoices, today) IN
    /\ invoices' = swept.invoices
    /\ response' = Page("overview", 0,
                         {[id |-> i, status |-> swept.invoices[i].status] :
                            i \in DOMAIN invoices})
    /\ UNCHANGED <<today, clients, vat_rates, invoice_lines, sweep, creating>>

\* --------------------------------------------- app/routes/clients.py -----
\* POST /clients/new
new_client(has_email) ==
    /\ NextId(clients) \in ClientIds
    /\ clients' = Put(clients, NextId(clients), [email |-> has_email])
    /\ response' = Flash("new_client", "success")
    /\ UNCHANGED <<today, vat_rates, invoices, invoice_lines, sweep, creating>>

\* delete_client without the check of the client's invoices
delete_client_InvoicesUnchecked(client_id) ==
    /\ client_id \in DOMAIN clients
    /\ clients' = Restrict(clients, DOMAIN clients \ {client_id})
    /\ response' = Flash("delete_client", "success")
    /\ UNCHANGED <<today, vat_rates, invoices, invoice_lines, sweep, creating>>

\* POST /clients/<id>/delete
delete_client(client_id) ==
    /\ client_id \in DOMAIN clients
    /\ IF {i \in DOMAIN invoices : invoices[i].client_id = client_id} # {}
       THEN /\ response' = Flash("delete_client", "warning")
            /\ UNCHANGED clients
       ELSE /\ clients' = Restrict(clients, DOMAIN clients \ {client_id})
            /\ response' = Flash("delete_client", "success")
    /\ UNCHANGED <<today, vat_rates, invoices, invoice_lines, sweep, creating>>

\* -------------------------------------------- app/routes/invoices.py -----
\* GET /invoices: the sweep, committed when it changed a row, then the list
invoices_list ==
    LET swept == update_overdue_invoices(invoices, today) IN
    /\ invoices' = swept.invoices
    /\ response' = Page("invoices_list", 0,
                         {[id |-> i, status |-> swept.invoices[i].status] :
                            i \in DOMAIN invoices})
    /\ UNCHANGED <<today, clients, vat_rates, invoice_lines, sweep, creating>>

\* validate_unique_invoice_number that does not exempt the edited invoice
validate_unique_invoice_number_OwnNumberCollides(number, invoice_id) ==
    \A i \in DOMAIN invoices : invoices[i].number # number

\* validate_unique_invoice_number: invoice_id is NULL for a new invoice
validate_unique_invoice_number(number, invoice_id) ==
    \A i \in DOMAIN invoices :
        invoices[i].number = number => (invoice_id # NULL /\ i = invoice_id)

\* the rows new_invoice adds for the submitted lines, keyed from first_id on
NewLines(inv_id, submitted, first_id) ==
    [l \in first_id..(first_id + Len(submitted) - 1) |->
        LET line_data == submitted[l - first_id + 1] IN
        [invoice_id |-> inv_id,
         description |-> line_data.description,
         qty |-> line_data.qty,
         unit_price |-> line_data.unit_price,
         line_total |-> calculate_line_total(line_data.qty, line_data.unit_price)]]

\* f and g have disjoint domains
Merge(f, g) == [k \in (DOMAIN f) \cup (DOMAIN g) |-> IF k \in DOMAIN f THEN f[k] ELSE g[k]]

\* InvoiceLineForm.validate on one row of the form: DataRequired on
\* description, qty and unit_price (a Decimal zero is not data),
\* NumberRange(min=0.01) on qty and NumberRange(min=0) on unit_price
LineFormValid(line) ==
    /\ line.description # ""
    /\ line.qty # 0 /\ line.qty >= 1
    /\ line.unit_price # 0 /\ line.unit_price >= 0

\* FieldList(min_entries=1).validate: a form without rows gets one empty row,
\* which is not valid; every row must be valid
LinesFieldValid(submitted) ==
    /\ Len(submitted) >= 1
    /\ \A k \in 1..Len(submitted) : LineFormValid(submitted[k])

\* form.validate_on_submit() of new_invoice
NewInvoiceFormValid(number, client_id, vat_rate_id, status, submitted) ==
    /\ validate_unique_invoice_number(number, NULL)
    /\ client_id \in DOMAIN clients
    /\ vat_rate_id \in get_active_rates(vat_rates)
    /\ status \in VALID_STATUSES
    /\ LinesFieldValid(submitted)

\* the rows new_invoice keeps: description, qty and unit_price are there
has_description(line) == line.description # ""
valid_lines(submitted) == SelectSeq(submitted, has_description)

\* no constraint on invoices.number
invoices_unique_Unchecked(tbl) == TRUE

\* the UNIQUE constraint on invoices.number
invoices_unique(tbl) ==
    \A a, b \in DOMAIN tbl : a # b => tbl[a].number # tbl[b].number

\* InsertInvoice that saves the lines and leaves the totals as constructed
InsertInvoice_TotalsNotRecomputed(number, client_id, date, due_date, vat_rate_id, status, kept) ==
    LET inv_id == NextId(invoices)
        invoice == [number |-> number, client_id |-> client_id, date |-> date,
                    due_date |-> due_date, subtotal |-> 0, vat_rate_id |-> vat_rate_id,
                    vat_rate |-> IF vat_rate_id \in DOMAIN vat_rates
                                 THEN vat_rates[vat_rate_id].rate ELSE 2400,
                    total |-> 0, status |-> status, updated_at |-> today]
    IN [invoices |-> Put(invoices, inv_id, invoice),
        invoice_lines |-> Merge(invoice_lines,
                                NewLines(inv_id, kept, NextId(invoice_lines)))]

\* new_invoice from "Create invoice" to the flush of the totals: the tables
\* as the session holds them before its commit
InsertInvoice(number, client_id, date, due_date, vat_rate_id, status, kept) ==
    LET inv_id == NextId(invoices)
        selected_vat_rate == vat_rate_id
        invoice == [number |-> number,
                    client_id |-> client_id,
                    date |-> date,
                    due_date |-> due_date,
                    subtotal |-> 0,
                    vat_rate_id |-> vat_rate_id,
                    vat_rate |-> IF selected_vat_rate \in DOMAIN vat_rates
                                 THEN vat_rates[selected_vat_rate].rate
                                 ELSE 2400,
                    total |-> 0,
                    status |-> status,
                    updated_at |-> today]
        lines == Merge(invoice_lines, NewLines(inv_id, kept, NextId(invoice_lines)))
    IN [invoices |-> Put(invoices, inv_id,
                         calculate_invoice_totals(invoice, inv_id, lines, vat_rates)),
        invoice_lines |-> lines]

\* POST /invoices/new
new_invoice(number, client_id, date, due_date, vat_rate_id, status, submitted) ==
    /\ DOMAIN clients # {}
    /\ NextId(invoices) \in InvoiceIds
    /\ IF ~NewInvoiceFormValid(number, client_id, vat_rate_id, status, submitted)
       THEN /\ response' = Flash("new_invoice", "form_error")
            /\ UNCHANGED <<invoices, invoice_lines>>
       ELSE IF Len(valid_lines(submitted)) = 0
       THEN /\ response' = Flash("new_invoice", "warning")
            /\ UNCHANGED <<invoices, invoice_lines>>
       ELSE LET session == InsertInvoice(number, client_id, date, due_date,
                                         vat_rate_id, status, valid_lines(submitted))
            IN IF invoices_unique(session.invoices)
               THEN /\ invoices' = session.invoices
                    /\ invoice_lines' = session.invoice_lines
                    /\ response' = Flash("new_invoice", "success")
               ELSE /\ response' = Flash("new_invoice", "danger")
                    /\ UNCHANGED <<invoices, invoice_lines>>
    /\ UNCHANGED <<today, clients, vat_rates, sweep, creating>>

\* GET /invoices/<id>
view_invoice(invoice_id) ==
    /\ invoice_id \in DOMAIN invoices
    /\ response' = Page("view_invoice", invoice_id,
                         {[id |-> invoice_id, status |-> invoices[invoice_id].status]})
    /\ UNCHANGED <<today, clients, vat_rates, invoices, invoice_lines, sweep, creating>>


\* The VAT rate edit_invoice puts into the form before it validates.
EditFormVatRateId(invoice, submitted_vat_rate_id) ==
    LET active == get_active_rates(vat_rates)
        matching == {r \in active : vat_rates[r].rate = invoice.vat_rate}
    IN IF invoice.vat_rate_id # NULL THEN invoice.vat_rate_id
       ELSE IF matching # {} THEN CHOOSE r \in matching : TRUE
       ELSE IF active # {}
       THEN CHOOSE r \in active : \A q \in active : vat_rates[r].rate <= vat_rates[q].rate
       ELSE submitted_vat_rate_id

\* onupdate=datetime.utcnow: an UPDATE of the row refreshes updated_at
Touch(old, new) == IF new = old THEN old ELSE [new EXCEPT !.updated_at = today]

\* The rows of form.lines when edit_invoice validates: the rows bound from
\* the request are popped one by one, then one row is appended for each
\* stored line of the invoice (by primary key).
EditFormLines(invoice_id, submitted) ==
    LET popped == SubSeq(submitted, 1, 0)
    IN {k \in 1..Len(popped) : FALSE} \cup LinesOf(invoice_lines, invoice_id)

\* POST /invoices/<id>/edit
edit_invoice(invoice_id, number, client_id, date, due_date, vat_rate_id, status, submitted) ==
    /\ invoice_id \in DOMAIN invoices
    /\ LET invoice == invoices[invoice_id] IN
       IF invoice.status = PAID
       THEN /\ response' = FlashStatus("edit_invoice", "warning", invoice_id, "")
            /\ UNCHANGED <<invoices, invoice_lines>>
       ELSE
       LET form_vat_rate_id == EditFormVatRateId(invoice, vat_rate_id)
           form_lines == EditFormLines(invoice_id, submitted)
       IN IF \/ ~validate_unique_invoice_number(number, invoice_id)
             \/ client_id \notin DOMAIN clients
             \/ form_vat_rate_id \notin get_active_rates(vat_rates)
             \/ status \notin VALID_STATUSES
             \/ ~can_change_status_to(invoice, status, today).ok
             \/ form_lines = {}
             \/ \E l \in form_lines : ~LineFormValid(invoice_lines[l])
          THEN /\ response' = FlashStatus("edit_invoice", "form_error", invoice_id, "")
               /\ UNCHANGED <<invoices, invoice_lines>>
          ELSE
          LET lines == [l \in DOMAIN invoice_lines |->
                          IF l \in form_lines
                          THEN [invoice_lines[l] EXCEPT
                                  !.line_total = calculate_line_total(
                                      invoice_lines[l].qty, invoice_lines[l].unit_price)]
                          ELSE invoice_lines[l]]
              edited == [invoice EXCEPT
                           !.client_id = client_id,
                           !.date = date,
                           !.due_date = due_date,
                           !.vat_rate_id = form_vat_rate_id,
                           !.vat_rate = IF form_vat_rate_id \in DOMAIN vat_rates
                                        THEN vat_rates[form_vat_rate_id].rate
                                        ELSE invoice.vat_rate,
                           !.status = status]
          IN /\ invoice_lines' = lines
             /\ invoices' = [invoices EXCEPT ![invoice_id] =
                               Touch(invoice, calculate_invoice_totals(
                                                 edited, invoice_id, lines, vat_rates))]
             /\ response' = FlashStatus("edit_invoice", "success", invoice_id, "")
    /\ UNCHANGED <<today, clients, vat_rates, sweep, creating>>

\* delete_invoice without the guard on paid invoices
delete_invoice_PaidUnguarded(invoice_id) ==
    /\ invoice_id \in DOMAIN invoices
    /\ invoices' = Restrict(invoices, DOMAIN invoices \ {invoice_id})
    /\ invoice_lines' = Restrict(invoice_lines,
           DOMAIN invoice_lines \ LinesOf(invoice_lines, invoice_id))
    /\ response' = FlashStatus("delete_invoice", "success", invoice_id, "")
    /\ UNCHANGED <<today, clients, vat_rates, sweep, creating>>

\* POST /invoices/<id>/delete (the lines go with the invoice: delete-orphan)
delete_invoice(invoice_id) ==
    /\ invoice_id \in DOMAIN invoices
    /\ IF invoices[invoice_id].status = PAID
       THEN /\ response' = FlashStatus("delete_invoice", "warning", invoice_id, "")
            /\ UNCHANGED <<invoices, invoice_lines>>
       ELSE /\ invoices' = Restrict(invoices, DOMAIN invoices \ {invoice_id})
            /\ invoice_lines' = Restrict(invoice_lines,
                   DOMAIN invoice_lines \ LinesOf(invoice_lines, invoice_id))
            /\ response' = FlashStatus("delete_invoice", "success", invoice_id, "")
    /\ UNCHANGED <<today, clients, vat_rates, sweep, creating>>

\* POST /invoices/<id>/status/<new_status>
change_status(invoice_id, new_status) ==
    /\ invoice_id \in DOMAIN invoices
    /\ LET invoice == invoices[invoice_id] IN
       IF ~can_change_status_to(invoice, new_status, today).ok
       THEN /\ response' = FlashStatus("change_status", "warning", invoice_id, new_status)
            /\ UNCHANGED invoices
       ELSE LET r == set_status(invoice, new_status, today) IN
            IF r.raised
            THEN /\ response' = FlashStatus("change_status", "warning", invoice_id, new_status)
                 /\ UNCHANGED invoices
            ELSE /\ invoices' = [invoices EXCEPT ![invoice_id] = r.invoice]
                 /\ response' = FlashStatus("change_status", "success", invoice_id, new_status)
    /\ UNCHANGED <<today, clients, vat_rates, invoice_lines, sweep, creating>>

\* InvoiceStatusTransition.transition_invoice_status on a stored invoice,
\* committed by its caller
service_transition(invoice_id, new_status) ==
    /\ invoice_id \in DOMAIN invoices
    /\ LET r == transition_invoice_status(invoices[invoice_id], new_status, today) IN
       /\ invoices' = [invoices EXCEPT ![invoice_id] = r.invoice]
       /\ response' = FlashStatus("service_transition", IF r.success THEN "success" ELSE "warning",
                                 invoice_id, new_status)
    /\ UNCHANGED <<today, clients, vat_rates, invoice_lines, sweep, creating>>

\* duplicate_invoice that gives the duplicate the status of the original
duplicate_invoice_StatusCopied(invoice_id) ==
    /\ invoice_id \in DOMAIN invoices
    /\ NextId(invoices) \in InvoiceIds
    /\ generate_invoice_number(invoices) \in Numbers
    /\ LET original == invoices[invoice_id]
           dup_id == NextId(invoices)
           first_id == NextId(invoice_lines)
           original_lines == LinesOf(invoice_lines, invoice_id)
           nth(k) == CHOOSE l \in original_lines :
                        Cardinality({m \in original_lines : m < l}) = k - 1
           copies == [l \in first_id..(first_id + Cardinality(original_lines) - 1) |->
                        [invoice_lines[nth(l - first_id + 1)] EXCEPT !.invoice_id = dup_id]]
           lines == Merge(invoice_lines, copies)
           duplicate == [original EXCEPT !.number = generate_invoice_number(invoices),
                                         !.date = today, !.updated_at = today]
       IN /\ invoice_lines' = lines
          /\ invoices' = Put(invoices, dup_id,
                             calculate_invoice_totals(duplicate, dup_id, lines, vat_rates))
          /\ response' = FlashStatus("duplicate_invoice", "success", invoice_id, "")
    /\ UNCHANGED <<today, clients, vat_rates, sweep, creating>>

\* POST /invoices/<id>/duplicate
duplicate_invoice(invoice_id) ==
    /\ invoice_id \in DOMAIN invoices
    /\ NextId(invoices) \in InvoiceIds
    /\ generate_invoice_number(invoices) \in Numbers
    /\ LET original == invoices[invoice_id]
           dup_id == NextId(invoices)
           first_id == NextId(invoice_lines)
           original_lines == LinesOf(invoice_lines, invoice_id)
           \* the k-th line of the original, in primary-key order
           nth(k) == CHOOSE l \in original_lines :
                        Cardinality({m \in original_lines : m < l}) = k - 1
           copies == [l \in first_id..(first_id + Cardinality(original_lines) - 1) |->
                        [invoice_lines[nth(l - first_id + 1)] EXCEPT !.invoice_id = dup_id]]
           lines == Merge(invoice_lines, copies)
           duplicate == [number |-> generate_invoice_number(invoices),
                         client_id |-> original.client_id,
                         date |-> today,
                         due_date |-> original.due_date,
                         subtotal |-> 0,
                         vat_rate_id |-> original.vat_rate_id,
                         vat_rate |-> original.vat_rate,
                         total |-> 0,
                         status |-> DRAFT,
                         updated_at |-> today]
           tbl == Put(invoices, dup_id,
                      calculate_invoice_totals(duplicate, dup_id, lines, vat_rates))
       IN IF invoices_unique(tbl)
          THEN /\ invoice_lines' = lines
               /\ invoices' = tbl
               /\ response' = FlashStatus("duplicate_invoice", "success", invoice_id, "")
          ELSE /\ UNCHANGED <<invoices, invoice_lines>>
               /\ response' = FlashStatus("duplicate_invoice", "danger", invoice_id, "")
    /\ UNCHANGED <<today, clients, vat_rates, sweep, creating>>

\* email_invoice without the check of the client's email address
email_invoice_EmailUnchecked(invoice_id) ==
    /\ invoice_id \in DOMAIN invoices
    /\ LET invoice == invoices[invoice_id] IN
       /\ invoices' = [invoices EXCEPT ![invoice_id] =
                         IF invoice.status = DRAFT
                         THEN [invoice EXCEPT !.status = SENT, !.updated_at = today]
                         ELSE invoice]
       /\ response' = FlashStatus("email_invoice", "success", invoice_id, "")
    /\ UNCHANGED <<today, clients, vat_rates, invoice_lines, sweep, creating>>

\* POST /invoices/<id>/email
email_invoice(invoice_id) ==
    /\ invoice_id \in DOMAIN invoices
    /\ LET invoice == invoices[invoice_id] IN
       IF ~clients[invoice.client_id].email
       THEN /\ response' = FlashStatus("email_invoice", "warning", invoice_id, "")
            /\ UNCHANGED invoices
       ELSE /\ invoices' = [invoices EXCEPT ![invoice_id] =
                              IF invoice.status = DRAFT
                              THEN Touch(invoice, [invoice EXCEPT !.status = SENT])
                              ELSE invoice]
            /\ response' = FlashStatus("email_invoice", "success", invoice_id, "")
    /\ UNCHANGED <<today, clients, vat_rates, invoice_lines, sweep, creating>>

\* ------------------------------------------------- app/routes/pdf.py -----
\* GET /invoice/<id>/pdf
invoice_pdf(id) ==
    /\ id \in DOMAIN invoices
    /\ response' = Page("invoice_pdf", id,
                         {[id |-> id, status |-> invoices[id].status]})
    /\ UNCHANGED <<today, clients, vat_rates, invoices, invoice_lines, sweep, creating>>

\* ---------------------------------------------------------------- Next ---
LineSubmissions == UNION {[1..n -> LineInputs] : n \in 1..MaxLines}

Next ==
    \/ Tick
    \/ init_default_vat_rates
    \/ overview
    \/ \E has_email \in BOOLEAN : new_client(has_email)
    \/ \E c \in ClientIds : delete_client(c)
    \/ invoices_list
    \/ \E number \in Numbers, c \in ClientIds, date \in SubmittedDates, due_date \in Days,
          v \in SubmittedVatRateIds, status \in RequestedStatuses,
          submitted \in LineSubmissions :
            new_invoice(number, c, date, due_date, v, status, submitted)
    \/ \E i \in InvoiceIds : view_invoice(i)
    \/ \E i \in InvoiceIds, number \in Numbers, c \in ClientIds, date \in SubmittedDates,
          due_date \in Days, v \in SubmittedVatRateIds, status \in RequestedStatuses,
          submitted \in LineSubmissions :
            edit_invoice(i, number, c, date, due_date, v, status, submitted)
    \/ \E i \in InvoiceIds : delete_invoice(i)
    \/ \E i \in InvoiceIds, new_status \in RequestedStatuses : change_status(i, new_status)
    \/ \E i \in InvoiceIds, new_status \in RequestedStatuses : service_transition(i, new_status)
    \/ \E i \in InvoiceIds : duplicate_invoice(i)
    \/ \E i \in InvoiceIds : email_invoice(i)
    \/ \E i \in InvoiceIds : invoice_pdf(i)

Spec == Init /\ [][Next]_vars


\* ----------------------------------------- requests that interleave ------
\* GET /invoices handled while other requests commit: first the SELECT of
\* update_overdue_invoices and its loop, which marks the loaded rows in the
\* session ...
sweep_select ==
    /\ sweep.pc = "idle"
    /\ sweep' = [pc |-> "selected", loaded |-> overdue_query(invoices, today),
                 day |-> today]
    /\ UNCHANGED <<today, clients, vat_rates, invoices, invoice_lines, response,
                   creating>>

\* ... then db.session.commit(), which flushes UPDATE invoices SET status,
\* updated_at WHERE id = ? for each marked row (a row that is gone fails the
\* flush and nothing is written), and the list is rendered.
sweep_commit ==
    /\ sweep.pc = "selected"
    /\ sweep' = [pc |-> "idle", loaded |-> {}, day |-> 0]
    /\ IF sweep.loaded \subseteq DOMAIN invoices
       THEN /\ invoices' = mark_overdue(invoices, sweep.loaded, sweep.day)
            /\ response' = Page("invoices_list", 0,
                                {[id |-> i, status |-> invoices'[i].status] :
                                   i \in DOMAIN invoices})
       ELSE /\ UNCHANGED invoices
            /\ response' = Flash("invoices_list", "danger")
    /\ UNCHANGED <<today, clients, vat_rates, invoice_lines, creating>>

NextConc ==
    \/ Next
    \/ sweep_select
    \/ sweep_commit

SpecConc == Init /\ [][NextConc]_vars

\* ------------------------------- new_invoice requests that interleave ----
\* POST /invoices/new of request p, up to the end of the form's validation:
\* the uniqueness of the number is read from the committed invoices ...
new_invoice_validate(p, number, client_id, date, due_date, vat_rate_id, status, submitted) ==
    /\ creating[p].pc = "idle"
    /\ DOMAIN clients # {}
    /\ IF ~NewInvoiceFormValid(number, client_id, vat_rate_id, status, submitted)
       THEN /\ response' = Flash("new_invoice", "form_error")
            /\ UNCHANGED creating
       ELSE IF Len(valid_lines(submitted)) = 0
       THEN /\ response' = Flash("new_invoice", "warning")
            /\ UNCHANGED creating
       ELSE /\ creating' = [creating EXCEPT ![p] =
                              [pc |-> "validated", number |-> number,
                               client_id |-> client_id, date |-> date,
                               due_date |-> due_date, vat_rate_id |-> vat_rate_id,
                               status |-> status, lines |-> valid_lines(submitted),
                               invoice_id |-> 0, loaded |-> << >>]]
            /\ UNCHANGED response
    /\ UNCHANGED <<today, clients, vat_rates, invoices, invoice_lines, sweep>>

\* ... then the INSERTs and db.session.commit(): a number that was committed
\* in between fails the flush with an IntegrityError, and the except branch
\* rolls the session back.
new_invoice_commit(p) ==
    /\ creating[p].pc = "validated"
    /\ NextId(invoices) \in InvoiceIds
    /\ LET form == creating[p]
           session == InsertInvoice(form.number, form.client_id, form.date,
                                    form.due_date, form.vat_rate_id, form.status,
                                    form.lines)
       IN IF invoices_unique(session.invoices)
          THEN /\ invoices' = session.invoices
               /\ invoice_lines' = session.invoice_lines
               /\ response' = Flash("new_invoice", "success")
          ELSE /\ response' = Flash("new_invoice", "danger")
               /\ UNCHANGED <<invoices, invoice_lines>>
    /\ creating' = [creating EXCEPT ![p] = IdleRequest]
    /\ UNCHANGED <<today, clients, vat_rates, sweep>>

\* Invoices created by requests in flight at once, deleted and duplicated.
NextNumbers ==
    \/ init_default_vat_rates
    \/ new_client(TRUE)
    \/ \E p \in Requests, number \in Numbers, c \in ClientIds, date \in SubmittedDates,
          due_date \in Days, v \in SubmittedVatRateIds, status \in RequestedStatuses,
          submitted \in LineSubmissions :
            new_invoice_validate(p, number, c, date, due_date, v, status, submitted)
    \/ \E p \in Requests : new_invoice_commit(p)
    \/ \E i \in InvoiceIds : delete_invoice(i)
    \/ \E i \in InvoiceIds : duplicate_invoice(i)

SpecNumbers == Init /\ [][NextNumbers]_vars

\* ------------------- invoice requests in flight at once: units of work ----
\* POST /invoices/<id>/edit of request p, up to the assignments to the loaded
\* invoice: the invoice and its lines are read and the form is validated
\* against the committed tables ...
edit_invoice_begin(p, invoice_id, number, client_id, date, due_date, vat_rate_id, status, submitted) ==
    /\ creating[p].pc = "idle"
    /\ invoice_id \in DOMAIN invoices
    /\ LET invoice == invoices[invoice_id] IN
       IF invoice.status = PAID
       THEN /\ response' = FlashStatus("edit_invoice", "warning", invoice_id, "")
            /\ UNCHANGED creating
       ELSE
       LET form_vat_rate_id == EditFormVatRateId(invoice, vat_rate_id)
           form_lines == EditFormLines(invoice_id, submitted)
       IN IF \/ ~validate_unique_invoice_number(number, invoice_id)
             \/ client_id \notin DOMAIN clients
             \/ form_vat_rate_id \notin get_active_rates(vat_rates)
             \/ status \notin VALID_STATUSES
             \/ ~can_change_status_to(invoice, status, today).ok
             \/ form_lines = {}
             \/ \E l \in form_lines : ~LineFormValid(invoice_lines[l])
          THEN /\ response' = FlashStatus("edit_invoice", "form_error", invoice_id, "")
               /\ UNCHANGED creating
          ELSE
          LET edited == [invoice EXCEPT
                           !.client_id = client_id,
                           !.date = date,
                           !.due_date = due_date,
                           !.vat_rate_id = form_vat_rate_id,
                           !.vat_rate = IF form_vat_rate_id \in DOMAIN vat_rates
                                        THEN vat_rates[form_vat_rate_id].rate
                                        ELSE invoice.vat_rate,
                           !.status = status]
          IN /\ creating' = [creating EXCEPT ![p] =
                               [IdleRequest EXCEPT
                                  !.pc = "editing",
                                  !.invoice_id = invoice_id,
                                  !.loaded = <<invoice, edited>>,
                                  !.lines = Restrict(invoice_lines, form_lines)]]
             /\ UNCHANGED response
    /\ UNCHANGED <<today, clients, vat_rates, invoices, invoice_lines, sweep>>

\* The row an UPDATE leaves: the columns the session changed are written, the
\* others stay as committed.
ApplyChanges(committed, loaded, changed) ==
    [column \in DOMAIN committed |->
        IF changed[column] # loaded[column] THEN changed[column] ELSE committed[column]]

\* ... then the line updates, the flush, calculate_invoice_totals and
\* db.session.commit(): an UPDATE of a row that was deleted in between fails
\* the flush, and the except branch rolls the session back.
edit_invoice_commit(p) ==
    /\ creating[p].pc = "editing"
    /\ LET form == creating[p]
           invoice_id == form.invoice_id
           loaded == form.loaded[1]
           session_lines == [l \in DOMAIN form.lines |->
                               [form.lines[l] EXCEPT
                                  !.line_total = calculate_line_total(
                                      form.lines[l].qty, form.lines[l].unit_price)]]
           edited == calculate_invoice_totals(form.loaded[2], invoice_id,
                                              session_lines, vat_rates)
           dirty_lines == {l \in DOMAIN form.lines : session_lines[l] # form.lines[l]}
           stale == \/ edited # loaded /\ invoice_id \notin DOMAIN invoices
                    \/ ~(dirty_lines \subseteq DOMAIN invoice_lines)
       IN IF stale
          THEN /\ response' = FlashStatus("edit_invoice", "danger", invoice_id, "")
               /\ UNCHANGED <<invoices, invoice_lines>>
          ELSE /\ invoices' =
                    [i \in DOMAIN invoices |->
                       IF i = invoice_id
                       THEN Touch(invoices[i], ApplyChanges(invoices[i], loaded, edited))
                       ELSE invoices[i]]
               /\ invoice_lines' =
                    [l \in DOMAIN invoice_lines |->
                       IF l \in dirty_lines
                       THEN ApplyChanges(invoice_lines[l], form.lines[l], session_lines[l])
                       ELSE invoice_lines[l]]
               /\ response' = FlashStatus("edit_invoice", "success", invoice_id, "")
    /\ creating' = [creating EXCEPT ![p] = IdleRequest]
    /\ UNCHANGED <<today, clients, vat_rates, sweep>>

\* POST /invoices/<id>/duplicate of request p, up to the new Invoice object:
\* the original is loaded and the next number is read ...
duplicate_invoice_begin(p, invoice_id) ==
    /\ creating[p].pc = "idle"
    /\ invoice_id \in DOMAIN invoices
    /\ generate_invoice_number(invoices) \in Numbers
    /\ creating' = [creating EXCEPT ![p] =
                      [IdleRequest EXCEPT
                         !.pc = "duplicating",
                         !.invoice_id = invoice_id,
                         !.number = generate_invoice_number(invoices),
                         !.loaded = <<invoices[invoice_id]>>]]
    /\ UNCHANGED <<today, clients, vat_rates, invoices, invoice_lines, response, sweep>>

\* ... then the flush of the duplicate (a number that was committed in between
\* fails it), the copies of original.lines as they are read after that flush,
\* calculate_invoice_totals and db.session.commit().
duplicate_invoice_commit(p) ==
    /\ creating[p].pc = "duplicating"
    /\ NextId(invoices) \in InvoiceIds
    /\ LET form == creating[p]
           original == form.loaded[1]
           dup_id == NextId(invoices)
           first_id == NextId(invoice_lines)
           original_lines == LinesOf(invoice_lines, form.invoice_id)
           nth(k) == CHOOSE l \in original_lines :
                        Cardinality({m \in original_lines : m < l}) = k - 1
           copies == [l \in first_id..(first_id + Cardinality(original_lines) - 1) |->
                        [invoice_lines[nth(l - first_id + 1)] EXCEPT !.invoice_id = dup_id]]
           lines == Merge(invoice_lines, copies)
           duplicate == [number |-> form.number,
                         client_id |-> original.client_id,
                         date |-> today,
                         due_date |-> original.due_date,
                         subtotal |-> 0,
                         vat_rate_id |-> original.vat_rate_id,
                         vat_rate |-> original.vat_rate,
                         total |-> 0,
                         status |-> DRAFT,
                         updated_at |-> today]
           tbl == Put(invoices, dup_id,
                      calculate_invoice_totals(duplicate, dup_id, lines, vat_rates))
       IN IF invoices_unique(tbl)
          THEN /\ invoice_lines' = lines
               /\ invoices' = tbl
               /\ response' = FlashStatus("duplicate_invoice", "success", form.invoice_id, "")
          ELSE /\ UNCHANGED <<invoices, invoice_lines>>
               /\ response' = FlashStatus("duplicate_invoice", "danger", form.invoice_id, "")
    /\ creating' = [creating EXCEPT ![p] = IdleRequest]
    /\ UNCHANGED <<today, clients, vat_rates, sweep>>

\* Drafts are created, edited to sent, duplicated and deleted by requests in
\* flight at once.
NextAtomic ==
    \/ init_default_vat_rates
    \/ new_client(TRUE)
    \/ \E p \in Requests, number \in Numbers, c \in ClientIds, date \in SubmittedDates,
          v \in SubmittedVatRateIds, submitted \in LineSubmissions :
            new_invoice_validate(p, number, c, date, date, v, DRAFT, submitted)
    \/ \E p \in Requests : new_invoice_commit(p)
    \/ \E p \in Requests, i \in InvoiceIds, number \in Numbers, c \in ClientIds,
          date \in SubmittedDates, v \in SubmittedVatRateIds,
          submitted \in LineSubmissions :
            edit_invoice_begin(p, i, number, c, date, date, v, SENT, submitted)
    \/ \E p \in Requests : edit_invoice_commit(p)
    \/ \E p \in Requests, i \in InvoiceIds : duplicate_invoice_begin(p, i)
    \/ \E p \in Requests : duplicate_invoice_commit(p)
    \/ \E i \in InvoiceIds : delete_invoice(i)

SpecAtomic == Init /\ [][NextAtomic]_vars

\* ---------------------------------------- invoices duplicated -----------
\* Invoices are created as drafts or paid, deleted and duplicated; one
\* duplicate request may read its number before other requests commit.
NextDuplicate ==
    \/ Tick
    \/ init_default_vat_rates
    \/ new_client(TRUE)
    \/ \E number \in Numbers, c \in ClientIds, date \in SubmittedDates, due_date \in Days,
          v \in SubmittedVatRateIds, status \in {DRAFT, PAID},
          submitted \in LineSubmissions :
            new_invoice(number, c, date, due_date, v, status, submitted)
    \/ \E i \in InvoiceIds : delete_invoice(i)
    \/ \E i \in InvoiceIds : duplicate_invoice(i)
    \/ \E i \in InvoiceIds : duplicate_invoice_begin(1, i)
    \/ duplicate_invoice_commit(1)

SpecDuplicate == Init /\ [][NextDuplicate]_vars

\* --------------------------- objects deleted through the session ---------
OwnerIds == 1..MaxOwnerId

\* db.session.add(Client(...)); db.session.commit()
Client_add(has_email) ==
    /\ NextId(clients) \in OwnerIds
    /\ clients' = Put(clients, NextId(clients), [email |-> has_email])
    /\ response' = Returned("Client.add", 0, {})
    /\ UNCHANGED <<today, vat_rates, invoices, invoice_lines, sweep, creating>>

\* db.session.delete(client) that deletes the clients row only
Client_delete_NoCascade(client_id) ==
    /\ client_id \in DOMAIN clients
    /\ clients' = Restrict(clients, DOMAIN clients \ {client_id})
    /\ response' = Returned("Client.delete", 0, {})
    /\ UNCHANGED <<today, vat_rates, invoices, invoice_lines, sweep, creating>>

\* db.session.delete(client); db.session.commit(): Client.invoices and
\* Invoice.lines cascade 'all, delete-orphan'.  The response holds the ids of
\* the invoices that went with the client.
Client_delete(client_id) ==
    /\ client_id \in DOMAIN clients
    /\ LET owned == {i \in DOMAIN invoices : invoices[i].client_id = client_id}
           owned_lines == UNION {LinesOf(invoice_lines, i) : i \in owned}
       IN /\ clients' = Restrict(clients, DOMAIN clients \ {client_id})
          /\ invoices' = Restrict(invoices, DOMAIN invoices \ owned)
          /\ invoice_lines' = Restrict(invoice_lines, DOMAIN invoice_lines \ owned_lines)
          /\ response' = Returned("Client.delete", 0, owned)
    /\ UNCHANGED <<today, vat_rates, sweep, creating>>

\* db.session.delete(invoice); db.session.commit(): Invoice.lines cascades
Invoice_delete(invoice_id) ==
    /\ invoice_id \in DOMAIN invoices
    /\ invoices' = Restrict(invoices, DOMAIN invoices \ {invoice_id})
    /\ invoice_lines' = Restrict(invoice_lines,
           DOMAIN invoice_lines \ LinesOf(invoice_lines, invoice_id))
    /\ response' = Returned("Invoice.delete", invoice_id, {})
    /\ UNCHANGED <<today, clients, vat_rates, sweep, creating>>

\* Clients come and go, with the invoices written for them and moved between
\* them.
NextOwnership ==
    \/ init_default_vat_rates
    \/ \E has_email \in BOOLEAN : Client_add(has_email)
    \/ \E c \in OwnerIds : Client_delete(c)
    \/ \E c \in OwnerIds : delete_client(c)
    \/ \E number \in Numbers, c \in OwnerIds, date \in SubmittedDates,
          v \in SubmittedVatRateIds, status \in {DRAFT, PAID},
          submitted \in LineSubmissions :
            new_invoice(number, c, date, date, v, status, submitted)
    \/ \E i \in InvoiceIds, number \in Numbers, c \in OwnerIds, date \in SubmittedDates,
          v \in SubmittedVatRateIds, submitted \in LineSubmissions :
            edit_invoice(i, number, c, date, date, v, DRAFT, submitted)
    \/ \E i \in InvoiceIds : delete_invoice(i)
    \/ \E i \in InvoiceIds : Invoice_delete(i)
    \/ \E i \in InvoiceIds : duplicate_invoice(i)

SpecOwnership == Init /\ [][NextOwnership]_vars

\* ----------------------------------- invoice forms and their rows --------
\* Rows a form may submit besides the complete one: without a description,
\* with quantity 0, with unit price 0, with a negative unit price.
OtherLineInputs ==
    { [description |-> "", qty |-> 250, unit_price |-> 10000],
      [description |-> "Service", qty |-> 0, unit_price |-> 10000],
      [description |-> "Service", qty |-> 250, unit_price |-> 0],
      [description |-> "Service", qty |-> 250, unit_price |-> -100] }

\* A form submits no row, or up to MaxLines rows.
AnyLineSubmissions ==
    {<< >>} \cup UNION {[1..n -> LineInputs \cup OtherLineInputs] : n \in 1..MaxLines}

\* The requests that write invoices and their lines, with any rows.
NextLines ==
    \/ Tick
    \/ init_default_vat_rates
    \/ \E has_email \in BOOLEAN : new_client(has_email)
    \/ \E number \in Numbers, c \in ClientIds, date \in SubmittedDates, due_date \in Days,
          v \in SubmittedVatRateIds, status \in RequestedStatuses,
          submitted \in AnyLineSubmissions :
            new_invoice(number, c, date, due_date, v, status, submitted)
    \/ \E i \in InvoiceIds, number \in Numbers, c \in ClientIds, date \in SubmittedDates,
          due_date \in Days, v \in SubmittedVatRateIds, status \in RequestedStatuses,
          submitted \in AnyLineSubmissions :
            edit_invoice(i, number, c, date, due_date, v, status, submitted)
    \/ \E i \in InvoiceIds : delete_invoice(i)
    \/ \E i \in InvoiceIds : duplicate_invoice(i)

SpecLines == Init /\ [][NextLines]_vars

\* -------------------------------- invoices edited with other rows --------
\* A second complete row (4 x 75.00), and the forms an edit submits: the rows
\* of the invoice changed, one more row, or one row fewer.
RevisedLineInputs == { [description |-> "Consulting", qty |-> 400, unit_price |-> 7500] }

EditLineSubmissions ==
    UNION {[1..n -> LineInputs \cup RevisedLineInputs] : n \in 1..(MaxLines + 1)}

\* The VAT rates an edit picks among: 20% and 24%.
EditVatRateIds == {3, 4}

NextEdit ==
    \/ init_default_vat_rates
    \/ new_client(TRUE)
    \/ \E number \in Numbers, c \in ClientIds, date \in SubmittedDates,
          v \in EditVatRateIds, status \in {DRAFT, PAID},
          submitted \in EditLineSubmissions :
            new_invoice(number, c, date, date, v, status, submitted)
    \/ \E i \in InvoiceIds, number \in Numbers, c \in ClientIds, date \in SubmittedDates,
          v \in EditVatRateIds, status \in {DRAFT, SENT},
          submitted \in EditLineSubmissions :
            edit_invoice(i, number, c, date, date, v, status, submitted)
    \/ \E i \in InvoiceIds : delete_invoice(i)

SpecEdit == Init /\ [][NextEdit]_vars

\* ------------------------------------ the VAT rate settings pages ---------
\* What a VatRateForm submits: a name (one of them the name of the default 24%
\* rate), a percentage and the status.
SubmittedVatRateNames == {"Standardmaar (24%)", "Erimaar (22%)"}
SubmittedVatRatePercents == {0, 2200, 2400}

\* The rates the settings pages are used on: the first default rate (0%), the
\* fourth (24%), which the invoice forms select, and a rate added after it.
EditedVatRateIds == {1, 4, 5}
MaintainedVatRateIds == {4, 5}

\* An edit form either comes back with the record's own name and percentage
\* and a status, or with a name and a percentage typed in.
NextVatRates ==
    \/ init_default_vat_rates
    \/ \E name \in SubmittedVatRateNames, rate \in SubmittedVatRatePercents,
          is_active \in BOOLEAN : new_vat_rate(name, rate, is_active)
    \/ \E v \in EditedVatRateIds \cap DOMAIN vat_rates, is_active \in BOOLEAN :
          edit_vat_rate(v, vat_rates[v].name, vat_rates[v].rate, is_active)
    \/ \E v \in EditedVatRateIds, name \in SubmittedVatRateNames,
          rate \in SubmittedVatRatePercents :
            edit_vat_rate(v, name, rate, TRUE)
    \/ \E v \in MaintainedVatRateIds : delete_vat_rate(v)

SpecVatRates == Init /\ [][NextVatRates]_vars

\* ------------------------ the VAT rate of a new invoice ------------------
\* GET /invoices/new: the form with the VAT rate choices and the rate that is
\* preselected among them
new_invoice_get ==
    /\ IF DOMAIN clients = {}
       THEN response' = Flash("new_invoice", "warning")
       ELSE LET rates == active_rates_list(vat_rates)
                default_rate == get_default_rate(vat_rates)
                selected == IF Len(rates) = 0 THEN NULL
                            ELSE IF default_rate # NULL THEN default_rate
                            ELSE rates[1]
            IN response' = Page("new_invoice", 0,
                                {[choices |-> rates, selected |-> selected]})
    /\ UNCHANGED <<today, clients, vat_rates, invoices, invoice_lines, sweep, creating>>

\* The rates the settings pages switch on and off, and the ones they delete.
SwitchedVatRateIds == {2, 3, 4}
DeletedVatRateIds == {1, 4}

\* The VAT rates are maintained while invoices are created: the form is
\* rendered, and a request that has validated its form commits later.
NextNewInvoiceVat ==
    \/ init_default_vat_rates
    \/ \E v \in SwitchedVatRateIds \cap DOMAIN vat_rates, is_active \in BOOLEAN :
          edit_vat_rate(v, vat_rates[v].name, vat_rates[v].rate, is_active)
    \/ \E v \in SubmittedVatRateIds, name \in SubmittedVatRateNames,
          rate \in SubmittedVatRatePercents :
            edit_vat_rate(v, name, rate, TRUE)
    \/ \E v \in DeletedVatRateIds : delete_vat_rate(v)
    \/ new_client(TRUE)
    \/ new_invoice_get
    \/ \E number \in Numbers, c \in ClientIds, date \in SubmittedDates,
          v \in SubmittedVatRateIds, submitted \in LineSubmissions :
            new_invoice_validate(1, number, c, date, date, v, DRAFT, submitted)
    \/ new_invoice_commit(1)

SpecNewInvoiceVat == Init /\ [][NextNewInvoiceVat]_vars

\* ------------------------- invoices while the VAT rates are maintained ----
\* Invoices are created as sent and due on the day they are written.
NextVat ==
    \/ Tick
    \/ init_default_vat_rates
    \/ \E rate \in SubmittedVatRatePercents : new_vat_rate("Erimaar (22%)", rate, TRUE)
    \/ \E v \in MaintainedVatRateIds, rate \in SubmittedVatRatePercents,
          is_active \in BOOLEAN :
            edit_vat_rate(v, "Standardmaar (24%)", rate, is_active)
    \/ \E v \in MaintainedVatRateIds : delete_vat_rate(v)
    \/ new_client(TRUE)
    \/ invoices_list
    \/ \E number \in Numbers, c \in ClientIds, date \in SubmittedDates,
          v \in SubmittedVatRateIds, submitted \in LineSubmissions :
            new_invoice(number, c, date, date, v, SENT, submitted)
    \/ \E i \in InvoiceIds, number \in Numbers, c \in ClientIds, date \in SubmittedDates,
          v \in SubmittedVatRateIds, submitted \in LineSubmissions :
            edit_invoice(i, number, c, date, date, v, SENT, submitted)
    \/ \E i \in InvoiceIds : delete_invoice(i)
    \/ \E i \in InvoiceIds : change_status(i, PAID)
    \/ \E i \in InvoiceIds : duplicate_invoice(i)

SpecVat == Init /\ [][NextVat]_vars

\* ------------------------------- the totals of one stored invoice ---------
\* Stored lines of invoice 1: the three of test_invoice_totals_with_estonian_vat
\* (1 x 300.00, 4 x 75.00, 2.5 x 100.00) and one whose stored line_total
\* (299.99) is not qty * unit_price.
StoredLines ==
    << [invoice_id |-> 1, description |-> "Web development", qty |-> 100,
        unit_price |-> 30000, line_total |-> 30000],
       [invoice_id |-> 1, description |-> "Consulting", qty |-> 400,
        unit_price |-> 7500, line_total |-> 30000],
       [invoice_id |-> 1, description |-> "Project management", qty |-> 250,
        unit_price |-> 10000, line_total |-> 25000],
       [invoice_id |-> 1, description |-> "Discounted", qty |-> 100,
        unit_price |-> 30000, line_total |-> 29999] >>

StoredLineTables == {Restrict(StoredLines, S) : S \in SUBSET (DOMAIN StoredLines)}

\* The table vat_rates: empty, or one row (22%, or 9% and inactive).
StoredRateTables ==
    { << >>,
      << [name |-> "Erimaar (22%)", rate |-> 2200, is_active |-> TRUE] >>,
      << [name |-> "Vahendatud maar (9%)", rate |-> 900, is_active |-> FALSE] >> }

\* Invoice 1: its VAT rate reference is null, row 1, or row 2 (never stored);
\* its stored subtotal and total are fresh or left from other lines.
StoredInvoices ==
    { [number |-> 1, client_id |-> 1, date |-> 0, due_date |-> 0,
       subtotal |-> t[1], vat_rate_id |-> v, vat_rate |-> r, total |-> t[2],
       status |-> DRAFT, updated_at |-> 0] :
         v \in {NULL, 1, 2}, r \in {2200, 2400}, t \in {<<0, 0>>, <<10000, 12400>>} }

InitTotals ==
    /\ today = 0
    /\ clients = << [email |-> TRUE] >>
    /\ vat_rates \in StoredRateTables
    /\ invoices \in {<<inv>> : inv \in StoredInvoices}
    /\ invoice_lines \in StoredLineTables
    /\ response = Flash("none", "none")
    /\ sweep = [pc |-> "idle", loaded |-> {}, day |-> 0]
    /\ creating = [p \in Requests |-> IdleRequest]

\* invoice.calculate_totals() on a stored invoice
calculate_totals_call(invoice_id) ==
    /\ invoice_id \in DOMAIN invoices
    /\ invoices' = [invoices EXCEPT ![invoice_id] =
                      calculate_totals(invoices[invoice_id], invoice_id,
                                       invoice_lines, vat_rates)]
    /\ response' = Returned("calculate_totals", invoice_id, {})
    /\ UNCHANGED <<today, clients, vat_rates, invoice_lines, sweep, creating>>

\* invoice.get_effective_vat_rate() on a stored invoice
get_effective_vat_rate_call(invoice_id) ==
    /\ invoice_id \in DOMAIN invoices
    /\ response' = Returned("get_effective_vat_rate", invoice_id,
                            {get_effective_vat_rate(invoices[invoice_id], vat_rates)})
    /\ UNCHANGED <<today, clients, vat_rates, invoices, invoice_lines, sweep, creating>>

NextTotals ==
    \/ \E i \in InvoiceIds : calculate_totals_call(i)
    \/ \E i \in InvoiceIds : get_effective_vat_rate_call(i)

SpecTotals == InitTotals /\ [][NextTotals]_vars

\* ------------------------------- the revenue of the stored clients -------
\* Up to three stored invoices with the totals of
\* test_client_total_revenue_property (100.00, 200.00, 50.00), each of any
\* status and of either of two clients.
RevenueTotals == <<10000, 20000, 5000>>

StoredRevenueInvoices ==
    UNION { [1..n -> {[client_id |-> c, status |-> st] :
                        c \in OwnerIds, st \in VALID_STATUSES}] :
            n \in 0..Len(RevenueTotals) }

InitRevenue ==
    /\ today = 0
    /\ clients = [c \in OwnerIds |-> [email |-> TRUE]]
    /\ vat_rates = << >>
    /\ \E stored \in StoredRevenueInvoices :
          invoices = [i \in DOMAIN stored |->
                        [number |-> i, client_id |-> stored[i].client_id, date |-> 0,
                         due_date |-> 0, subtotal |-> RevenueTotals[i],
                         vat_rate_id |-> NULL, vat_rate |-> 0,
                         total |-> RevenueTotals[i], status |-> stored[i].status,
                         updated_at |-> 0]]
    /\ invoice_lines = << >>
    /\ response = Flash("none", "none")
    /\ sweep = [pc |-> "idle", loaded |-> {}, day |-> 0]
    /\ creating = [p \in Requests |-> IdleRequest]

\* client.total_revenue read on a stored client
total_revenue_call(client_id) ==
    /\ client_id \in DOMAIN clients
    /\ response' = Returned("total_revenue", 0,
                            {[client_id |-> client_id,
                              total_revenue |-> total_revenue(client_id, invoices)]})
    /\ UNCHANGED <<today, clients, vat_rates, invoices, invoice_lines, sweep, creating>>

NextRevenue ==
    \E c \in OwnerIds : total_revenue_call(c)

SpecRevenue == InitRevenue /\ [][NextRevenue]_vars

\* --------------------------- the two deciders of a status transition -----
\* One stored invoice of any status, due before, on or after today.
InitTransitions ==
    /\ today \in Days
    /\ clients = << [email |-> TRUE] >>
    /\ vat_rates = << >>
    /\ \E status \in VALID_STATUSES, due_date \in Days :
          invoices = << [number |-> 1, client_id |-> 1, date |-> 0,
                         due_date |-> due_date, subtotal |-> 0, vat_rate_id |-> NULL,
                         vat_rate |-> 2400, total |-> 0, status |-> status,
                         updated_at |-> 0] >>
    /\ invoice_lines = << >>
    /\ response = Flash("none", "none")
    /\ sweep = [pc |-> "idle", loaded |-> {}, day |-> 0]
    /\ creating = [p \in Requests |-> IdleRequest]

\* invoice.can_change_status_to(new_status) on a stored invoice
can_change_status_to_call(invoice_id, new_status) ==
    /\ invoice_id \in DOMAIN invoices
    /\ response' = FlashStatus("can_change_status_to",
                               IF can_change_status_to(invoices[invoice_id],
                                                       new_status, today).ok
                               THEN "success" ELSE "warning",
                               invoice_id, new_status)
    /\ UNCHANGED <<today, clients, vat_rates, invoices, invoice_lines, sweep, creating>>

\* InvoiceStatusTransition.get_valid_transitions(invoice.status)
get_valid_transitions_call(invoice_id) ==
    /\ invoice_id \in DOMAIN invoices
    /\ response' = Returned("get_valid_transitions", invoice_id,
                            get_valid_transitions(invoices[invoice_id].status))
    /\ UNCHANGED <<today, clients, vat_rates, invoices, invoice_lines, sweep, creating>>

NextTransitions ==
    \/ \E i \in InvoiceIds, new_status \in RequestedStatuses :
          can_change_status_to_call(i, new_status)
    \/ \E i \in InvoiceIds, new_status \in RequestedStatuses :
          service_transition(i, new_status)
    \/ \E i \in InvoiceIds : get_valid_transitions_call(i)

SpecTransitions == InitTransitions /\ [][NextTransitions]_vars


\* =================================================================== claims
\* A step that handles a request for a status transition; the response names
\* the invoice and the status that were requested.
StatusStep ==
    /\ response'.route \in {"change_status", "service_transition"}
    /\ \/ change_status(response'.invoice_id, response'.new_status)
       \/ service_transition(response'.invoice_id, response'.new_status)

Accepted == response'.category = "success"
Rejected == response'.category = "warning"

\* C1: from paid, a requested transition to draft, sent or overdue is rejected
\* by can_change_status_to / set_status, by transition_invoice_status and by the
\* change_status route, and the status stays paid; paid -> paid is accepted and
\* the status stays paid.
C1_PaidNeverReverts ==
    [][LET i == response'.invoice_id
           s == response'.new_status
       IN (StatusStep /\ invoices[i].status = PAID /\ s \in VALID_STATUSES)
          => /\ invoices'[i].status = PAID
             /\ IF s = PAID THEN Accepted ELSE Rejected
             /\ can_change_status_to(invoices[i], s, today).ok = (s = PAID)
             /\ set_status(invoices[i], s, today).raised = (s # PAID)
             /\ transition_invoice_status(invoices[i], s, today).success = (s = PAID)
             /\ s # PAID => invoices'[i] = invoices[i]]_vars

\* a paid invoice has just been refused the transition to sent by the route
C1_Witness ==
    /\ response.route = "change_status"
    /\ response.category = "warning"
    /\ response.new_status = SENT
    /\ response.invoice_id \in DOMAIN invoices
    /\ invoices[response.invoice_id].status = PAID


\* C2: from overdue, a requested transition to sent is rejected (the status
\* stays overdue) whenever due_date < today, and accepted (the status becomes
\* sent) whenever due_date >= today.
C2_OverdueToSentGuarded ==
    [][LET i == response'.invoice_id
           s == response'.new_status
       IN (StatusStep /\ invoices[i].status = OVERDUE /\ s = SENT)
          => IF invoices[i].due_date < today
             THEN Rejected /\ invoices'[i].status = OVERDUE
             ELSE Accepted /\ invoices'[i].status = SENT]_vars

\* overdue -> sent while the due date is in the past
StillPastDue(inv, s) == inv.status = OVERDUE /\ s = SENT /\ inv.due_date < today

\* C3: from draft, sent or overdue every requested status of the closed set,
\* other than overdue -> sent while past due, is accepted and becomes the
\* invoice's status; draft -> paid succeeds directly.
C3_UnpaidTransitionsAccepted ==
    [][LET i == response'.invoice_id
           s == response'.new_status
       IN (/\ StatusStep
           /\ invoices[i].status \in {DRAFT, SENT, OVERDUE}
           /\ s \in VALID_STATUSES
           /\ ~StillPastDue(invoices[i], s))
          => /\ Accepted
             /\ invoices'[i].status = s
             /\ can_change_status_to(invoices[i], s, today).ok
             /\ transition_invoice_status(invoices[i], s, today).success]_vars

\* the route has just accepted a transition to paid, and the invoice is paid
C3_Witness ==
    /\ response.route = "change_status"
    /\ response.category = "success"
    /\ response.new_status = PAID
    /\ response.invoice_id \in DOMAIN invoices
    /\ invoices[response.invoice_id].status = PAID

\* C4: a requested status outside the closed set is rejected from every
\* current status, paid included, and leaves the invoice unchanged; every
\* stored invoice has one of the four statuses.
C4_InvalidStatusRejected ==
    /\ [](\A i \in DOMAIN invoices : invoices[i].status \in VALID_STATUSES)
    /\ [][LET i == response'.invoice_id
              s == response'.new_status
          IN (StatusStep /\ s \notin VALID_STATUSES)
             => /\ Rejected
                /\ invoices' = invoices
                /\ ~can_change_status_to(invoices[i], s, today).ok
                /\ ~can_transition_to(invoices[i].status, s).ok]_vars

\* a paid invoice has just been refused a status outside the closed set
C4_Witness ==
    /\ response.route = "change_status"
    /\ response.category = "warning"
    /\ response.new_status = INVALID_STATUS
    /\ response.invoice_id \in DOMAIN invoices
    /\ invoices[response.invoice_id].status = PAID

\* the lines of invoice i, as rows keyed by primary key
LineRows(lines, i) == Restrict(lines, LinesOf(lines, i))

\* C5: once an invoice is paid, every request handled afterwards
\* (change_status, edit_invoice, delete_invoice, email_invoice,
\* duplicate_invoice, delete_client, the overdue sweep) leaves it in the store,
\* paid, with the same lines, subtotal and total.
C5_PaidIsImmutable ==
    [][\A i \in DOMAIN invoices :
         invoices[i].status = PAID
         => /\ i \in DOMAIN invoices'
            /\ invoices'[i].status = PAID
            /\ invoices'[i].subtotal = invoices[i].subtotal
            /\ invoices'[i].total = invoices[i].total
            /\ LineRows(invoice_lines', i) = LineRows(invoice_lines, i)]_vars

\* a paid invoice with a line has just been refused its deletion
C5_Witness ==
    /\ response.route = "delete_invoice"
    /\ response.category = "warning"
    /\ response.invoice_id \in DOMAIN invoices
    /\ invoices[response.invoice_id].status = PAID
    /\ invoices[response.invoice_id].total > 0
    /\ LinesOf(invoice_lines, response.invoice_id) # {}


\* A step that handles a request whose route runs the overdue sweep first.
SweepStep ==
    /\ response'.route \in {"invoices_list", "overview"}
    /\ invoices_list \/ overview

\* C6: one pass of the overdue sweep sets to overdue exactly the invoices that
\* are sent with due_date strictly before today, returns the number of invoices
\* it changed, and leaves every other invoice unchanged (draft, paid, overdue,
\* and sent with due_date >= today).
C6_SweepMarksExactlySentPastDue ==
    [][SweepStep
       => /\ DOMAIN invoices' = DOMAIN invoices
          /\ \A i \in DOMAIN invoices :
                IF invoices[i].status = SENT /\ invoices[i].due_date < today
                THEN invoices'[i].status = OVERDUE
                ELSE invoices'[i] = invoices[i]
          /\ update_overdue_invoices(invoices, today).count =
                Cardinality({i \in DOMAIN invoices : invoices'[i] # invoices[i]})]_vars

\* the list has just been rendered with an invoice the sweep made overdue on
\* this day, next to a sent invoice that is due today and was left alone
C6_Witness ==
    /\ response.route = "invoices_list"
    /\ \E i, j \in DOMAIN invoices :
          /\ invoices[i].status = OVERDUE
          /\ invoices[i].due_date < today
          /\ invoices[i].updated_at = today
          /\ invoices[i].date < today
          /\ invoices[j].status = SENT
          /\ invoices[j].due_date = today

\* C7: the overdue sweep is idempotent: run again at the same date right after
\* a pass, it changes no invoice and reports zero updates.
C7_SweepIdempotent ==
    [][SweepStep
       => LET again == update_overdue_invoices(invoices', today')
          IN /\ again.invoices = invoices'
             /\ again.count = 0]_vars

\* the dashboard has just been rendered after its sweep made an invoice overdue
C7_Witness ==
    /\ response.route = "overview"
    /\ \E r \in response.rendered :
          /\ r.status = OVERDUE
          /\ invoices[r.id].due_date < today
          /\ invoices[r.id].updated_at = today

\* C8: under every interleaving of an overdue sweep (select, write, commit)
\* with requests committed in between, the only status change the sweep causes
\* is sent -> overdue: it never overwrites a status another request committed.
C8_SweepNeverDemotes ==
    [][sweep_commit
       => \A i \in (DOMAIN invoices) \cap (DOMAIN invoices') :
             invoices'[i].status # invoices[i].status
             => invoices[i].status = SENT /\ invoices'[i].status = OVERDUE]_vars

\* A step that renders invoice statuses: the list, the dashboard, the detail
\* view or the PDF export.
ReadStep ==
    /\ response'.category = "page"
    /\ \/ invoices_list
       \/ overview
       \/ view_invoice(response'.invoice_id)
       \/ invoice_pdf(response'.invoice_id)

\* C9: the overdue sweep has run and is committed before every read of invoice
\* statuses: no invoice the list, the dashboard, the detail view or the PDF
\* export reads is sent with due_date < today.
C9_SweepBeforeEveryRead ==
    [][ReadStep
       => \A r \in response'.rendered :
             ~(r.status = SENT /\ invoices'[r.id].due_date < today')]_vars

\* C10: an accepted status transition and the overdue sweep change nothing
\* but the invoice's status and updated_at: lines, subtotal, total, VAT rate
\* reference, denormalized VAT rate, number, client and dates stay as they were.
C10_StatusChangeFrame ==
    [][((StatusStep /\ Accepted) \/ SweepStep)
       => /\ invoice_lines' = invoice_lines
          /\ DOMAIN invoices' = DOMAIN invoices
          /\ \A i \in DOMAIN invoices :
                [invoices'[i] EXCEPT !.status = invoices[i].status,
                                     !.updated_at = invoices[i].updated_at]
                = invoices[i]]_vars

\* the route has just moved an invoice with a line and a total to sent, on a
\* later day than the invoice was created
C10_Witness ==
    /\ response.route = "change_status"
    /\ response.category = "success"
    /\ response.new_status = SENT
    /\ response.invoice_id \in DOMAIN invoices
    /\ LET inv == invoices[response.invoice_id]
       IN /\ inv.status = SENT
          /\ inv.total > inv.subtotal
          /\ inv.subtotal > 0
          /\ inv.updated_at = today
          /\ inv.date < today

\* C11: in every committed state reachable by invoice creation, edit and
\* duplication, status transitions, the overdue sweep and VAT rate create,
\* update and delete, every invoice has total = subtotal + subtotal *
\* effective_rate / 100 and subtotal = the sum of its lines' line_total, the
\* effective rate being the live VatRate's when the reference is set.
C11_TotalsConsistent ==
    \A i \in DOMAIN invoices :
        /\ invoices[i].total = invoices[i].subtotal + vat_amount(invoices[i], vat_rates)
        /\ invoices[i].subtotal =
              SumOver([l \in DOMAIN invoice_lines |-> invoice_lines[l].line_total],
                      LinesOf(invoice_lines, i))

\* the sum of the stored line_total of the lines of invoice i
StoredLineTotal(lines, i) ==
    SumOver([l \in DOMAIN lines |-> lines[l].line_total], LinesOf(lines, i))

\* amount is base * rate / 100 to the cent (rate in hundredths of a percent)
IsPercentOf(amount, base, rate) ==
    /\ 10000 * amount - base * rate <= 5000
    /\ base * rate - 10000 * amount <= 5000

\* the three lines (1, 300.00), (4, 75.00), (2.5, 100.00)
ExampleLines == Restrict(StoredLines, {1, 2, 3})

\* C12: calculate_totals sets subtotal to the sum of the stored line_total of
\* the invoice's lines (qty * unit_price is not recomputed) and total to
\* subtotal + subtotal * effective_rate / 100; for the lines (1, 300.00),
\* (4, 75.00), (2.5, 100.00) and rate 22 that is subtotal 850.00, VAT amount
\* 187.00 and total 1037.00.
C12_CalculateTotals ==
    [][\A i \in DOMAIN invoices :
         (response'.route = "calculate_totals" /\ calculate_totals_call(i))
         => LET inv == invoices'[i]
                rate == get_effective_vat_rate(invoices[i], vat_rates)
            IN /\ inv.subtotal = StoredLineTotal(invoice_lines, i)
               /\ IsPercentOf(inv.total - inv.subtotal, inv.subtotal, rate)
               /\ (LineRows(invoice_lines, i) = ExampleLines /\ rate = 2200)
                  => /\ inv.subtotal = 85000
                     /\ vat_amount(inv, vat_rates) = 18700
                     /\ inv.total = 103700]_vars

\* calculate_totals has just run on the invoice with the three example lines
\* and the denormalized rate 22, whose stored totals were left from other lines
C12_Witness ==
    /\ response.route = "calculate_totals"
    /\ LineRows(invoice_lines, 1) = ExampleLines
    /\ invoices[1].vat_rate_id = NULL
    /\ invoices[1].vat_rate = 2200
    /\ invoices[1].subtotal = 85000
    /\ invoices[1].total = 103700

\* C13: recalculating totals is idempotent: with unchanged lines and unchanged
\* effective rate, calculate_totals called again after a call (and so any
\* number of times) yields the same subtotal and total as the one call.
C13_CalculateTotalsIdempotent ==
    [][\A i \in DOMAIN invoices :
         (response'.route = "calculate_totals" /\ calculate_totals_call(i))
         => LET once == invoices'[i]
                twice == calculate_totals(once, i, invoice_lines', vat_rates')
            IN /\ twice.subtotal = once.subtotal
               /\ twice.total = once.total
               /\ twice = once]_vars

\* calculate_totals has just run on an invoice with lines and a live rate
\* of 22%, whose stored totals were not those of its lines before
C13_Witness ==
    /\ response.route = "calculate_totals"
    /\ invoices[1].vat_rate_id \in DOMAIN vat_rates
    /\ vat_rates[invoices[1].vat_rate_id].rate = 2200
    /\ invoices[1].vat_rate = 2400
    /\ invoices[1].subtotal = 29999
    /\ invoices[1].total = 29999 + 6600

\* the numbers of the stored invoices
UsedNumbers == {invoices[i].number : i \in DOMAIN invoices}

\* C14: no two invoices have the same number: creating an invoice under a
\* number another invoice has fails and leaves invoices and lines unchanged, a
\* duplicate gets a number no invoice has (or nothing is stored), and an edit
\* that keeps the invoice's own number is not refused as a collision.
C14_NumbersUnique ==
    /\ [](\A i, j \in DOMAIN invoices : i # j => invoices[i].number # invoices[j].number)
    \* a new_invoice step that stored something is not one under a used number
    /\ [][(/\ response'.route = "new_invoice"
           /\ \/ response'.category = "success"
              \/ invoices' # invoices
              \/ invoice_lines' # invoice_lines)
          => \A number \in UsedNumbers :
               ~\E c \in ClientIds, date \in SubmittedDates, due_date \in Days,
                   v \in SubmittedVatRateIds, status \in RequestedStatuses,
                   submitted \in LineSubmissions :
                     new_invoice(number, c, date, due_date, v, status, submitted)]_vars
    /\ [][(response'.route = "duplicate_invoice"
             /\ duplicate_invoice(response'.invoice_id))
          => \/ invoices' = invoices /\ invoice_lines' = invoice_lines
             \/ \E d \in DOMAIN invoices' \ DOMAIN invoices :
                   invoices'[d].number \notin UsedNumbers]_vars
    \* an edit_invoice step that was refused is not one that kept the number of
    \* an unpaid invoice and asked for a client and a status it may have
    /\ [][(response'.route = "edit_invoice" /\ response'.category # "success")
          => LET i == response'.invoice_id IN
             \A c \in DOMAIN clients, date \in SubmittedDates, due_date \in Days,
                v \in SubmittedVatRateIds, status \in VALID_STATUSES,
                submitted \in LineSubmissions :
                  ~(/\ invoices[i].status # PAID
                    /\ can_change_status_to(invoices[i], status, today).ok
                    /\ edit_invoice(i, invoices[i].number, c, date, due_date, v, status,
                                    submitted))]_vars
    /\ [][(response'.route = "edit_invoice" /\ response'.category = "success")
          => invoices'[response'.invoice_id].number
               = invoices[response'.invoice_id].number]_vars

\* an edit has just been accepted while a second invoice, with another
\* number, is stored: the edit kept the invoice's own number
C14_Witness ==
    /\ response.route = "edit_invoice"
    /\ response.category = "success"
    /\ \E j \in DOMAIN invoices :
          /\ j # response.invoice_id
          /\ invoices[j].number # invoices[response.invoice_id].number

\* C15: when two new_invoice requests with the same number have both passed
\* the form's uniqueness check before either commits, at most one commits:
\* the commit of a request whose number is in use by then stores neither its
\* invoice nor any of its lines.
C15_ConcurrentCreateOneCommits ==
    /\ [](\A i, j \in DOMAIN invoices : i # j => invoices[i].number # invoices[j].number)
    /\ [](\A l \in DOMAIN invoice_lines : invoice_lines[l].invoice_id \in DOMAIN invoices)
    /\ [][\A p \in Requests :
            (new_invoice_commit(p) /\ creating[p].number \in UsedNumbers)
            => /\ response'.category = "danger"
               /\ invoices' = invoices
               /\ invoice_lines' = invoice_lines]_vars

\* a request that had passed the form's validation has just been rolled back
\* at its commit, and the one invoice stored has its line
C15_Witness ==
    /\ response.route = "new_invoice"
    /\ response.category = "danger"
    /\ Cardinality(DOMAIN invoices) = 1
    /\ Cardinality(DOMAIN invoice_lines) = 1
    /\ \A p \in Requests : creating[p].pc = "idle"

\* C16: delete_client removes the client exactly when the client owns no
\* invoice; when it owns one or more the deletion is refused and the client,
\* its invoices and their lines are unchanged.
C16_DeleteClientOnlyWithoutInvoices ==
    [][\A c \in DOMAIN clients :
         (response'.route = "delete_client" /\ delete_client(c))
         => IF {i \in DOMAIN invoices : invoices[i].client_id = c} = {}
            THEN /\ response'.category = "success"
                 /\ DOMAIN clients' = DOMAIN clients \ {c}
                 /\ \A d \in DOMAIN clients' : clients'[d] = clients[d]
            ELSE /\ response'.category = "warning"
                 /\ clients' = clients
                 /\ invoices' = invoices
                 /\ invoice_lines' = invoice_lines]_vars

\* the deletion of a client has just been refused: the client is stored and
\* owns an invoice with a line
C16_Witness ==
    /\ response.route = "delete_client"
    /\ response.category = "warning"
    /\ \E c \in DOMAIN clients, i \in DOMAIN invoices :
          /\ invoices[i].client_id = c
          /\ LinesOf(invoice_lines, i) # {}

\* C17: delete_vat_rate is refused, leaving the rate and all invoices
\* unchanged, whenever an invoice references the rate, and removes the rate
\* when none does; so no invoice ever holds a reference to a deleted rate.
C17_DeleteVatRateOnlyUnreferenced ==
    /\ [](\A i \in DOMAIN invoices :
            invoices[i].vat_rate_id # NULL => invoices[i].vat_rate_id \in DOMAIN vat_rates)
    /\ [][\A v \in DOMAIN vat_rates :
            (response'.route = "delete_vat_rate" /\ delete_vat_rate(v))
            => /\ invoices' = invoices
               /\ invoice_lines' = invoice_lines
               /\ IF \E i \in DOMAIN invoices : invoices[i].vat_rate_id = v
                  THEN /\ response'.category = "warning"
                       /\ vat_rates' = vat_rates
                  ELSE /\ response'.category = "success"
                       /\ DOMAIN vat_rates' = DOMAIN vat_rates \ {v}
                       /\ \A w \in DOMAIN vat_rates' : vat_rates'[w] = vat_rates[w]]_vars

\* the deletion of a VAT rate has just been refused: an invoice references a
\* rate, and the rate is stored
C17_Witness ==
    /\ response.route = "delete_vat_rate"
    /\ response.category = "warning"
    /\ \E i \in DOMAIN invoices :
          /\ invoices[i].vat_rate_id \in DOMAIN vat_rates
          /\ invoices[i].vat_rate_id \in MaintainedVatRateIds

\* another record than v (NULL: any record) has this name or this percentage
DuplicatesAnother(v, name, rate) ==
    \E w \in DOMAIN vat_rates :
        w # v /\ (vat_rates[w].name = name \/ vat_rates[w].rate = rate)

\* C18: through VAT rate create, update, deactivate, delete and
\* init-default-rates no two VatRate records, active or not, share a
\* percentage or a name; an update that keeps the record's own name and
\* percentage is accepted; a create or update that would duplicate another
\* record's name or percentage is rejected and changes no record.
C18_VatRatesUnique ==
    /\ [](\A a, b \in DOMAIN vat_rates :
            a # b => /\ vat_rates[a].rate # vat_rates[b].rate
                     /\ vat_rates[a].name # vat_rates[b].name)
    /\ [][response'.route = "edit_vat_rate"
          => \A v \in DOMAIN vat_rates, is_active \in BOOLEAN :
               edit_vat_rate(v, vat_rates[v].name, vat_rates[v].rate, is_active)
               => /\ response'.category = "success"
                  /\ vat_rates'[v].name = vat_rates[v].name
                  /\ vat_rates'[v].rate = vat_rates[v].rate
                  /\ vat_rates'[v].is_active = is_active]_vars
    /\ [][response'.route \in {"new_vat_rate", "edit_vat_rate"}
          => \A name \in SubmittedVatRateNames, rate \in SubmittedVatRatePercents,
                is_active \in BOOLEAN :
               /\ (new_vat_rate(name, rate, is_active)
                    /\ DuplicatesAnother(NULL, name, rate))
                  => response'.category # "success" /\ vat_rates' = vat_rates
               /\ \A v \in DOMAIN vat_rates :
                    (edit_vat_rate(v, name, rate, is_active)
                     /\ DuplicatesAnother(v, name, rate))
                    => response'.category # "success" /\ vat_rates' = vat_rates]_vars

\* C19: get_effective_vat_rate returns the percentage of the referenced
\* VatRate whenever the reference resolves to a stored rate, and the
\* invoice's denormalized vat_rate when the reference is null or the
\* referenced rate is not stored.
C19_EffectiveVatRate ==
    [][\A i \in DOMAIN invoices :
         (response'.route = "get_effective_vat_rate" /\ get_effective_vat_rate_call(i))
         => LET ref == invoices[i].vat_rate_id
                resolves == ref # NULL /\ \E r \in DOMAIN vat_rates : r = ref
            IN response'.rendered =
                 {IF resolves THEN vat_rates[ref].rate ELSE invoices[i].vat_rate}]_vars

\* get_effective_vat_rate has just answered the denormalized 24% for an
\* invoice whose reference is to a rate that is not stored, while the stored
\* rate is another
C19_Witness ==
    /\ response.route = "get_effective_vat_rate"
    /\ invoices[1].vat_rate_id # NULL
    /\ invoices[1].vat_rate_id \notin DOMAIN vat_rates
    /\ DOMAIN vat_rates # {}
    /\ invoices[1].vat_rate = 2400
    /\ response.rendered = {2400}

\* a row with a non-empty description, a positive quantity and a non-negative
\* unit price
IsCompleteLine(line) ==
    line.description # "" /\ line.qty > 0 /\ line.unit_price >= 0

NoCompleteLine(submitted) ==
    \A k \in 1..Len(submitted) : ~IsCompleteLine(submitted[k])

\* C20: an invoice creation or edit that submits no line with a non-empty
\* description, a positive quantity and a non-negative unit price fails and
\* persists nothing; so every stored invoice has at least one line and every
\* stored line has qty > 0, unit_price >= 0 and line_total >= 0.
C20_EmptyInvoiceRefused ==
    /\ [](/\ \A i \in DOMAIN invoices : LinesOf(invoice_lines, i) # {}
          /\ \A l \in DOMAIN invoice_lines :
                /\ invoice_lines[l].qty > 0
                /\ invoice_lines[l].unit_price >= 0
                /\ invoice_lines[l].line_total >= 0)
    \* a new_invoice step that stored something submitted a complete line
    /\ [][(/\ response'.route = "new_invoice"
           /\ \/ response'.category = "success"
              \/ invoices' # invoices
              \/ invoice_lines' # invoice_lines)
          => \A submitted \in AnyLineSubmissions :
               NoCompleteLine(submitted)
               => ~\E number \in Numbers, c \in ClientIds, date \in SubmittedDates,
                      due_date \in Days, v \in SubmittedVatRateIds,
                      status \in RequestedStatuses :
                        new_invoice(number, c, date, due_date, v, status, submitted)]_vars
    \* an edit_invoice step that stored something submitted a complete line
    /\ [][(/\ response'.route = "edit_invoice"
           /\ \/ response'.category = "success"
              \/ invoices' # invoices
              \/ invoice_lines' # invoice_lines)
          => \A submitted \in AnyLineSubmissions :
               NoCompleteLine(submitted)
               => ~\E number \in Numbers, c \in ClientIds, date \in SubmittedDates,
                      due_date \in Days, v \in SubmittedVatRateIds,
                      status \in RequestedStatuses :
                        edit_invoice(response'.invoice_id, number, c, date, due_date, v,
                                     status, submitted)]_vars

\* the invoices a step added
AddedInvoices == DOMAIN invoices' \ DOMAIN invoices

\* a step that stored one more invoice, with this many lines, totalled, and
\* left every other invoice and line as it was
StoredOneInvoice(line_count) ==
    /\ \E d \in AddedInvoices :
          /\ AddedInvoices = {d}
          /\ Cardinality(LinesOf(invoice_lines', d)) = line_count
          /\ DOMAIN invoice_lines' \ DOMAIN invoice_lines = LinesOf(invoice_lines', d)
          /\ invoices'[d].subtotal = StoredLineTotal(invoice_lines', d)
    /\ \A i \in DOMAIN invoices : i \in DOMAIN invoices' /\ invoices'[i] = invoices[i]
    /\ \A l \in DOMAIN invoice_lines :
          l \in DOMAIN invoice_lines' /\ invoice_lines'[l] = invoice_lines[l]

\* C21: invoice creation, edit and duplication are atomic: a request whose
\* unit of work fails at a sub-step is rolled back and leaves the committed
\* tables exactly as they were, a request that succeeds stores the invoice,
\* its lines and its totals together, and no committed state has an invoice
\* whose subtotal and total are not those of its saved lines.
C21_AtomicUnitOfWork ==
    /\ [](\A i \in DOMAIN invoices :
            /\ invoices[i].subtotal = StoredLineTotal(invoice_lines, i)
            /\ invoices[i].total =
                  invoices[i].subtotal + vat_amount(invoices[i], vat_rates))
    /\ [](\A l \in DOMAIN invoice_lines : invoice_lines[l].invoice_id \in DOMAIN invoices)
    /\ [][\A p \in Requests :
            (new_invoice_commit(p) \/ edit_invoice_commit(p) \/ duplicate_invoice_commit(p))
            => /\ response'.category \in {"success", "danger"}
               /\ response'.category = "danger"
                  => /\ invoices' = invoices
                     /\ invoice_lines' = invoice_lines
                     /\ clients' = clients
                     /\ vat_rates' = vat_rates]_vars
    /\ [][\A p \in Requests :
            /\ (new_invoice_commit(p) /\ response'.category = "success")
               => StoredOneInvoice(Len(creating[p].lines))
            /\ (duplicate_invoice_commit(p) /\ response'.category = "success")
               => StoredOneInvoice(
                    Cardinality(LinesOf(invoice_lines, creating[p].invoice_id)))
            /\ (edit_invoice_commit(p) /\ response'.category = "success")
               => /\ DOMAIN invoices' = DOMAIN invoices
                  /\ DOMAIN invoice_lines' = DOMAIN invoice_lines
                  /\ \A i \in DOMAIN invoices :
                        i # creating[p].invoice_id => invoices'[i] = invoices[i]
                  /\ \A l \in DOMAIN invoice_lines :
                        invoice_lines[l].invoice_id # creating[p].invoice_id
                        => invoice_lines'[l] = invoice_lines[l]]_vars

\* an edit has just been rolled back at its flush, because the invoice was
\* deleted after the form was validated, while another invoice is stored with
\* its line and its totals
C21_Witness ==
    /\ response.route = "edit_invoice"
    /\ response.category = "danger"
    /\ response.invoice_id \notin DOMAIN invoices
    /\ \E i \in DOMAIN invoices :
          /\ LinesOf(invoice_lines, i) # {}
          /\ invoices[i].total > invoices[i].subtotal

\* C22: ownership is by composition: deleting a client through the model
\* deletes all of its invoices and their lines (and nothing of another
\* client), deleting an invoice deletes all of its lines, and in every
\* reachable state every invoice references a stored client and every line a
\* stored invoice.
C22_OwnershipByComposition ==
    /\ [](\A i \in DOMAIN invoices : invoices[i].client_id \in DOMAIN clients)
    /\ [](\A l \in DOMAIN invoice_lines : invoice_lines[l].invoice_id \in DOMAIN invoices)
    /\ [][\A c \in DOMAIN clients :
            (response'.route = "Client.delete" /\ Client_delete(c))
            => /\ DOMAIN clients' = DOMAIN clients \ {c}
               /\ DOMAIN invoices' =
                     {i \in DOMAIN invoices : invoices[i].client_id # c}
               /\ DOMAIN invoice_lines' =
                     {l \in DOMAIN invoice_lines :
                        invoices[invoice_lines[l].invoice_id].client_id # c}
               /\ \A d \in DOMAIN clients' : clients'[d] = clients[d]
               /\ \A i \in DOMAIN invoices' : invoices'[i] = invoices[i]
               /\ \A l \in DOMAIN invoice_lines' : invoice_lines'[l] = invoice_lines[l]]_vars
    /\ [][\A i \in DOMAIN invoices :
            (\/ response'.route = "Invoice.delete" /\ Invoice_delete(i)
             \/ /\ response'.route = "delete_invoice"
                /\ response'.category = "success"
                /\ delete_invoice(i))
            => /\ DOMAIN invoices' = DOMAIN invoices \ {i}
               /\ DOMAIN invoice_lines' =
                     {l \in DOMAIN invoice_lines : invoice_lines[l].invoice_id # i}
               /\ clients' = clients
               /\ \A j \in DOMAIN invoices' : invoices'[j] = invoices[j]
               /\ \A l \in DOMAIN invoice_lines' : invoice_lines'[l] = invoice_lines[l]]_vars

\* a client has just been deleted and an invoice went with it, while the
\* other client is stored and still has its invoice and the line of it
C22_Witness ==
    /\ response.route = "Client.delete"
    /\ response.rendered # {}
    /\ response.rendered \cap DOMAIN invoices = {}
    /\ \E c \in DOMAIN clients, i \in DOMAIN invoices :
          /\ invoices[i].client_id = c
          /\ LinesOf(invoice_lines, i) # {}

\* the list holds the ids of exactly the active rates, by ascending percentage
IsActiveAscending(choices) ==
    /\ {choices[k] : k \in 1..Len(choices)} =
          {r \in DOMAIN vat_rates : vat_rates[r].is_active}
    /\ Len(choices) = Cardinality({r \in DOMAIN vat_rates : vat_rates[r].is_active})
    /\ \A j, k \in 1..Len(choices) :
          j < k => vat_rates[choices[j]].rate < vat_rates[choices[k]].rate

\* C23: the VAT rate preselected for a new invoice is the active rate of 24%
\* when there is one, otherwise the first of the active rates in ascending
\* order of percentage (the choices are the active rates only, ascending);
\* and an invoice saved while its selected rate cannot be resolved gets the
\* denormalized rate 24.
C23_PreselectedVatRate ==
    /\ [][(response'.route = "new_invoice" /\ response'.category = "page"
             /\ new_invoice_get)
          => \A form \in response'.rendered :
               /\ IsActiveAscending(form.choices)
               /\ IF \E r \in DOMAIN vat_rates :
                        vat_rates[r].is_active /\ vat_rates[r].rate = 2400
                  THEN /\ form.selected \in DOMAIN vat_rates
                       /\ vat_rates[form.selected].is_active
                       /\ vat_rates[form.selected].rate = 2400
                  ELSE IF Len(form.choices) > 0
                  THEN form.selected = form.choices[1]
                  ELSE form.selected = NULL]_vars
    /\ [][(/\ new_invoice_commit(1)
           /\ response'.category = "success"
           /\ creating[1].vat_rate_id \notin DOMAIN vat_rates)
          => \A d \in AddedInvoices : invoices'[d].vat_rate = 2400]_vars

\* the form has just been rendered with a rate other than 24% preselected,
\* the first of two active rates, since no active rate is of 24%; and an
\* invoice is stored whose rate was deleted before it was saved, with the
\* denormalized rate 24
C23_Witness ==
    /\ response.route = "new_invoice"
    /\ response.category = "page"
    /\ \E form \in response.rendered :
          /\ Len(form.choices) >= 2
          /\ form.selected = form.choices[1]
          /\ vat_rates[form.selected].rate # 2400
    /\ \E i \in DOMAIN invoices :
          /\ invoices[i].vat_rate_id \notin DOMAIN vat_rates
          /\ invoices[i].vat_rate = 2400

\* the sum of the stored total of the invoices of client c with status st
TotalWithStatus(c, st) ==
    SumOver([i \in DOMAIN invoices |-> invoices[i].total],
            {i \in DOMAIN invoices : invoices[i].client_id = c /\ invoices[i].status = st})

\* C24: a client's total_revenue is the sum of the stored total over exactly
\* its sent, paid and overdue invoices (drafts do not count), and 0 for a
\* client with no invoices.
C24_TotalRevenue ==
    [][\A c \in DOMAIN clients :
         (response'.route = "total_revenue" /\ total_revenue_call(c))
         => \A answer \in response'.rendered :
              /\ answer.total_revenue =
                    TotalWithStatus(c, SENT) + TotalWithStatus(c, PAID)
                      + TotalWithStatus(c, OVERDUE)
              /\ (\A i \in DOMAIN invoices : invoices[i].client_id # c)
                 => answer.total_revenue = 0]_vars

\* the revenue of a client with a paid invoice of 100.00, a sent one of
\* 200.00 and a draft of 50.00 has just been answered as 300.00
C24_Witness ==
    /\ response.route = "total_revenue"
    /\ response.rendered = {[client_id |-> 1, total_revenue |-> 30000]}
    /\ DOMAIN invoices = {1, 2, 3}
    /\ \A i \in DOMAIN invoices : invoices[i].client_id = 1
    /\ invoices[1].status = PAID
    /\ invoices[2].status = SENT
    /\ invoices[3].status = DRAFT

\* C25: in every reachable state every invoice whose VatRate reference is set
\* has a denormalized vat_rate equal to the current percentage of the rate it
\* references, whatever invoice creations, edits and duplications and VAT
\* rate updates have run.
C25_DenormalizedRateInSync ==
    \A i \in DOMAIN invoices :
        invoices[i].vat_rate_id # NULL
        => /\ invoices[i].vat_rate_id \in DOMAIN vat_rates
           /\ invoices[i].vat_rate = vat_rates[invoices[i].vat_rate_id].rate

\* the k-th line of invoice i, in primary-key order
NthLine(lines, i, k) ==
    CHOOSE l \in LinesOf(lines, i) :
        Cardinality({m \in LinesOf(lines, i) : m < l}) = k - 1

\* the stored lines of invoice i are the submitted rows, one for one
LinesAreSubmitted(lines, i, submitted) ==
    /\ Cardinality(LinesOf(lines, i)) = Len(submitted)
    /\ \A k \in 1..Len(submitted) :
          LET line == lines[NthLine(lines, i, k)] IN
          /\ line.description = submitted[k].description
          /\ line.qty = submitted[k].qty
          /\ line.unit_price = submitted[k].unit_price
          /\ line.line_total = calculate_line_total(line.qty, line.unit_price)

\* C26: after a successful edit_invoice request on a non-paid invoice the
\* invoice's stored lines and VAT rate are the ones the request submitted
\* (lines changed, added and removed as submitted, the submitted rate
\* assigned), and subtotal and total are recomputed from them.
C26_EditAppliesSubmission ==
    [][(response'.route = "edit_invoice" /\ response'.category = "success")
       => LET i == response'.invoice_id IN
          \A v \in EditVatRateIds, submitted \in EditLineSubmissions :
            (\E number \in Numbers, c \in ClientIds, date \in SubmittedDates,
                due_date \in Days, status \in VALID_STATUSES :
                  edit_invoice(i, number, c, date, due_date, v, status, submitted))
            => /\ invoices[i].status # PAID
               /\ invoices'[i].vat_rate_id = v
               /\ invoices'[i].vat_rate = vat_rates[v].rate
               /\ LinesAreSubmitted(invoice_lines', i, submitted)
               /\ invoices'[i].subtotal = StoredLineTotal(invoice_lines', i)
               /\ invoices'[i].total =
                     invoices'[i].subtotal + vat_amount(invoices'[i], vat_rates)]_vars

\* C27: once an invoice is paid, its effective VAT rate and its derived
\* vat_amount stay the same under every later operation, updates and
\* deactivations of the VatRate it references included.
C27_PaidVatFrozen ==
    [][\A i \in DOMAIN invoices :
         (invoices[i].status = PAID /\ i \in DOMAIN invoices')
         => /\ get_effective_vat_rate(invoices'[i], vat_rates')
                 = get_effective_vat_rate(invoices[i], vat_rates)
            /\ vat_amount(invoices'[i], vat_rates') = vat_amount(invoices[i], vat_rates)]_vars

C29_EmailInvoiceFrame ==
    [][\A i \in DOMAIN invoices :
         (response'.route = "email_invoice" /\ email_invoice(i))
         => /\ invoice_lines' = invoice_lines
            /\ DOMAIN invoices' = DOMAIN invoices
            /\ \A j \in DOMAIN invoices : j # i => invoices'[j] = invoices[j]
            /\ [invoices'[i] EXCEPT !.status = invoices[i].status,
                                    !.updated_at = invoices[i].updated_at]
                 = invoices[i]
            /\ IF clients[invoices[i].client_id].email
               THEN /\ response'.category = "success"
                    /\ IF invoices[i].status = DRAFT
                       THEN invoices'[i].status = SENT
                       ELSE invoices'[i] = invoices[i]
               ELSE /\ response'.category = "warning"
                    /\ invoices'[i] = invoices[i]]_vars

\* the sending of a draft with a line has just been refused: its client has
\* no email address, and the invoice is still a draft
C29_Witness ==
    /\ response.route = "email_invoice"
    /\ response.category = "warning"
    /\ response.invoice_id \in DOMAIN invoices
    /\ invoices[response.invoice_id].status = DRAFT
    /\ ~clients[invoices[response.invoice_id].client_id].email
    /\ LinesOf(invoice_lines, response.invoice_id) # {}

\* every invoice and line stored before the step is stored unchanged after it
StoredRowsKept ==
    /\ \A i \in DOMAIN invoices : i \in DOMAIN invoices' /\ invoices'[i] = invoices[i]
    /\ \A l \in DOMAIN invoice_lines :
          l \in DOMAIN invoice_lines' /\ invoice_lines'[l] = invoice_lines[l]

\* the lines of invoice d after the step copy the lines of invoice i before
\* it, one for one
LinesCopied(d, i) ==
    /\ Cardinality(LinesOf(invoice_lines', d)) = Cardinality(LinesOf(invoice_lines, i))
    /\ DOMAIN invoice_lines' \ DOMAIN invoice_lines = LinesOf(invoice_lines', d)
    /\ \A k \in 1..Cardinality(LinesOf(invoice_lines, i)) :
          LET copy == invoice_lines'[NthLine(invoice_lines', d, k)]
              line == invoice_lines[NthLine(invoice_lines, i, k)]
          IN /\ copy.description = line.description
             /\ copy.qty = line.qty
             /\ copy.unit_price = line.unit_price
             /\ copy.line_total = line.line_total

\* C30: duplicate_invoice on any invoice, a paid one included, leaves the
\* original and its lines unchanged and, on success, adds exactly one invoice:
\* a draft, under a number no invoice has, with the client, due date and VAT
\* rate of the original and with copies of its lines (description, qty,
\* unit_price, line_total) one for one; on failure nothing is added.
C30_DuplicateInvoiceFrame ==
    /\ [][\A i \in DOMAIN invoices :
            (response'.route = "duplicate_invoice" /\ duplicate_invoice(i))
            => /\ StoredRowsKept
               /\ response'.category \in {"success", "danger"}
               /\ IF response'.category = "success"
                  THEN \E d \in AddedInvoices :
                         /\ AddedInvoices = {d}
                         /\ invoices'[d].status = DRAFT
                         /\ invoices'[d].number \notin UsedNumbers
                         /\ invoices'[d].client_id = invoices[i].client_id
                         /\ invoices'[d].due_date = invoices[i].due_date
                         /\ invoices'[d].vat_rate_id = invoices[i].vat_rate_id
                         /\ invoices'[d].vat_rate = invoices[i].vat_rate
                         /\ LinesCopied(d, i)
                  ELSE invoices' = invoices /\ invoice_lines' = invoice_lines]_vars
    \* a duplicate that commits after other requests have committed
    /\ [][duplicate_invoice_commit(1)
          => /\ StoredRowsKept
             /\ response'.category \in {"success", "danger"}
             /\ IF response'.category = "success"
                THEN \E d \in AddedInvoices :
                       /\ AddedInvoices = {d}
                       /\ invoices'[d].status = DRAFT
                       /\ invoices'[d].number \notin UsedNumbers
                ELSE invoices' = invoices /\ invoice_lines' = invoice_lines]_vars

\* a paid invoice has just been duplicated, on a later day: it is still paid,
\* with its line, and the duplicate is a draft of today with a line and
\* another number
C30_Witness ==
    /\ response.route = "duplicate_invoice"
    /\ response.category = "success"
    /\ response.invoice_id \in DOMAIN invoices
    /\ invoices[response.invoice_id].status = PAID
    /\ LinesOf(invoice_lines, response.invoice_id) # {}
    /\ \E d \in DOMAIN invoices :
          /\ d # response.invoice_id
          /\ invoices[d].status = DRAFT
          /\ invoices[d].date = today
          /\ invoices[d].date > invoices[response.invoice_id].date
          /\ invoices[d].number # invoices[response.invoice_id].number
          /\ invoices[d].total = invoices[response.invoice_id].total
          /\ LinesOf(invoice_lines, d) # {}

=============================================================================
